---- MODULE Spec2Model ----
(***************************************************************************)
(* Battlezone simulation core: Game orchestrator, Player, EnemyTank, UFO,  *)
(* ProjectileManager, PowerUpManager, ParticleSystem, Collision, Physics.  *)
(*                                                                         *)
(* Fixed-point units of the model:                                         *)
(*   time      milliseconds                  (deltaTime 0.1 s   = 100)     *)
(*   length    hundredths of a world unit    (collisionRadius 2 = 200)     *)
(*   velocity  tenths of a world unit per s  (speed 60          = 600)     *)
(*   angle     hundredths of a radian        (PI                = 314)     *)
(*   direction thousandths                   (unit vector       = 1000)    *)
(* so that  position += velocity * deltaTime  is  v * dt / 100.            *)
(***************************************************************************)
EXTENDS Integers, Sequences, FiniteSets, TLC

NULL == "null"
\* A null entity reference.
NoTarget == [id |-> NULL, alive |-> FALSE]

\* value handed to Op once it has been computed
Let(value, Op(_)) == CHOOSE r \in {Op(v) : v \in {value}} : TRUE

\* ------------------------------------------------------------------ Math
Abs(a) == IF a < 0 THEN -a ELSE a
Min(a, b) == IF a < b THEN a ELSE b
Max(a, b) == IF a > b THEN a ELSE b
Sign(a) == IF a > 0 THEN 1 ELSE IF a < 0 THEN -1 ELSE 0

\* Real division a / b (b > 0), rounded to the nearest fixed-point value.
RDiv(a, b) == IF a >= 0 THEN (2 * a + b) \div (2 * b) ELSE -((2 * (-a) + b) \div (2 * b))

RECURSIVE SqrtIter(_, _)
SqrtIter(n, r) ==
    LET q == (r + n \div r) \div 2
    IN IF q >= r THEN r ELSE SqrtIter(n, q)

\* Math.sqrt, floor of the root.
Sqrt(n) == IF n <= 0 THEN 0 ELSE IF n < 4 THEN 1 ELSE SqrtIter(n, n \div 2)

PI == 314
TWO_PI == 628
HALF_PI == 157

\* Utils.clamp
Clamp(value, lo, hi) == Max(lo, Min(hi, value))

\* Utils.lerp with t in thousandths
Lerp(a, b, t) == a + RDiv((b - a) * t, 1000)

\* Utils.normalizeAngle: the two while loops
RECURSIVE NormalizeDown(_)
NormalizeDown(angle) == IF angle > PI THEN NormalizeDown(angle - TWO_PI) ELSE angle
RECURSIVE NormalizeUp(_)
NormalizeUp(angle) == IF angle < -PI THEN NormalizeUp(angle + TWO_PI) ELSE angle
normalizeAngle(angle) == NormalizeUp(NormalizeDown(angle))

\* Math.sin in thousandths, for an angle in [0, PI] (Bhaskara's rational form).
SinHalf(x) == RDiv(16000 * x * (PI - x), 5 * PI * PI - 4 * x * (PI - x))
Sin(a) ==
    LET m == a % TWO_PI
    IN IF m <= PI THEN SinHalf(m) ELSE -SinHalf(m - PI)
Cos(a) == Sin(a + HALF_PI)

\* Math.atan of a ratio r/1000 in [0, 1], in hundredths of a radian.
AtanUnit(r) == RDiv(r * 7854, 100000) + RDiv(273 * r * (1000 - r), 10000000)
\* Math.atan2(x, z): the angle of the vector (x, z) from the +z axis.
Atan2(x, z) ==
    LET ax == Abs(x)
        az == Abs(z)
        a == IF ax = 0 /\ az = 0 THEN 0
             ELSE IF ax <= az THEN AtanUnit(RDiv(ax * 1000, az))
             ELSE HALF_PI - AtanUnit(RDiv(az * 1000, ax))
        q == IF z >= 0 THEN a ELSE PI - a
    IN IF x < 0 THEN -q ELSE q

\* Utils.angleToVector: [sin, 0, cos] in thousandths
angleToVector(angle) == <<Sin(angle), 0, Cos(angle)>>

\* Utils.distance2D
distance2D(x1, z1, x2, z2) == Sqrt((x2 - x1) * (x2 - x1) + (z2 - z1) * (z2 - z1))

\* position += velocity * deltaTime
Move(v, dt) == RDiv(v * dt, 100)

\* ------------------------------------------------------------- Collision
\* Collision.circleVsCircle
circleVsCircle(x1, z1, r1, x2, z2, r2) ==
    LET dx == x2 - x1
        dz == z2 - z1
        radiusSum == r1 + r2
    IN dx * dx + dz * dz <= radiusSum * radiusSum

\* Collision.pointVsCircle
pointVsCircle(px, pz, cx, cz, radius) ==
    LET dx == px - cx
        dz == pz - cz
    IN dx * dx + dz * dz <= radius * radius

\* Collision.pointVsAabb
pointVsAabb(px, py, pz, box) ==
    /\ px >= box.minX /\ px <= box.maxX
    /\ py >= box.minY /\ py <= box.maxY
    /\ pz >= box.minZ /\ pz <= box.maxZ

\* The box of a cube for every obstacle
CubeBox(obstacle) ==
    [minX |-> obstacle.position[1] - RDiv(obstacle.size[1], 2),
     maxX |-> obstacle.position[1] + RDiv(obstacle.size[1], 2),
     minY |-> 0, maxY |-> obstacle.size[2],
     minZ |-> obstacle.position[3] - RDiv(obstacle.size[3], 2),
     maxZ |-> obstacle.position[3] + RDiv(obstacle.size[3], 2)]

\* The footprint box of an obstacle: a pyramid spans size, a cube size / 2.
ObstacleBox(obstacle) ==
    IF obstacle.type = "pyramid"
    THEN [minX |-> obstacle.position[1] - obstacle.size[1],
          maxX |-> obstacle.position[1] + obstacle.size[1],
          minY |-> 0, maxY |-> obstacle.size[2],
          minZ |-> obstacle.position[3] - obstacle.size[3],
          maxZ |-> obstacle.position[3] + obstacle.size[3]]
    ELSE [minX |-> obstacle.position[1] - RDiv(obstacle.size[1], 2),
          maxX |-> obstacle.position[1] + RDiv(obstacle.size[1], 2),
          minY |-> 0, maxY |-> obstacle.size[2],
          minZ |-> obstacle.position[3] - RDiv(obstacle.size[3], 2),
          maxZ |-> obstacle.position[3] + RDiv(obstacle.size[3], 2)]

\* Collision.checkObstacleCollision: TRUE when some obstacle is returned.
checkObstacleCollision(position, radius, obstacles) ==
    \E i \in 1..Len(obstacles) :
        LET box == ObstacleBox(obstacles[i])
        IN /\ position[1] >= box.minX - radius /\ position[1] <= box.maxX + radius
           /\ position[3] >= box.minZ - radius /\ position[3] <= box.maxZ + radius

\* Collision.checkObstacleCollision: the index of the obstacle returned, 0 for null
checkObstacleCollisionAt(position, radius, obstacles) ==
    Let({i \in 1..Len(obstacles) :
            /\ position[1] >= ObstacleBox(obstacles[i]).minX - radius
            /\ position[1] <= ObstacleBox(obstacles[i]).maxX + radius
            /\ position[3] >= ObstacleBox(obstacles[i]).minZ - radius
            /\ position[3] <= ObstacleBox(obstacles[i]).maxZ + radius}, LAMBDA found :
    IF found = {} THEN 0 ELSE CHOOSE i \in found : \A j \in found : i <= j)

\* entity.invulnerable, undefined (falsy) on an entity without the field
Invulnerable(entity) ==
    IF "invulnerable" \in DOMAIN entity THEN entity.invulnerable ELSE FALSE

\* The test of one entity without the skip of an invulnerable one
ProjectileTouchesAny(projectile, entity, excludeId) ==
    /\ entity.id # excludeId
    /\ pointVsCircle(projectile.position[1], projectile.position[3],
                     entity.position[1], entity.position[3], entity.collisionRadius)
    /\ projectile.position[2] >= entity.position[2]
    /\ projectile.position[2] <= entity.position[2] + entity.height

\* The body of the loop of Collision.checkProjectileCollision for one entity.
ProjectileTouches(projectile, entity, excludeId) ==
    /\ entity.id # excludeId
    /\ ~Invulnerable(entity)
    /\ pointVsCircle(projectile.position[1], projectile.position[3],
                     entity.position[1], entity.position[3], entity.collisionRadius)
    /\ projectile.position[2] >= entity.position[2]
    /\ projectile.position[2] <= entity.position[2] + entity.height

\* Collision.checkProjectileCollision: the index of the first entity hit, or 0.
checkProjectileCollision(projectile, entities, excludeId) ==
    Let({i \in 1..Len(entities) : ProjectileTouches(projectile, entities[i], excludeId)},
        LAMBDA hit :
    IF hit = {} THEN 0 ELSE CHOOSE i \in hit : \A j \in hit : i <= j)

\* Collision.rayVsSphere, on whole coordinates and a direction that is not
\* zero; t is in thousandths.  hit is FALSE for the null result.
rayVsSphere(origin, direction, center, radius) ==
    Let(<<origin[1] - center[1], origin[2] - center[2], origin[3] - center[3]>>, LAMBDA oc :
    Let(direction[1] * direction[1] + direction[2] * direction[2]
            + direction[3] * direction[3], LAMBDA a :
    Let(2 * (oc[1] * direction[1] + oc[2] * direction[2] + oc[3] * direction[3]), LAMBDA b :
    Let(oc[1] * oc[1] + oc[2] * oc[2] + oc[3] * oc[3] - radius * radius, LAMBDA c :
    Let(b * b - 4 * a * c, LAMBDA discriminant :
    IF discriminant < 0 THEN [hit |-> FALSE, t |-> 0]
    ELSE Let(-1000 * b - Sqrt(discriminant * 1000000), LAMBDA numerator :
         IF numerator < 0 THEN [hit |-> FALSE, t |-> 0]
         ELSE [hit |-> TRUE, t |-> RDiv(numerator, 2 * a)]))))))

\* Collision.createSpatialHash: the hash object.  cells is the Map, as the
\* sequence of its entries in the order of their creation.
createSpatialHash(cellSize) == [cellSize |-> cellSize, cells |-> <<>>]

\* The index of the entry of the Map with the given key, 0 if there is none
CellIndex(hash, key) ==
    IF \E i \in 1..Len(hash.cells) : hash.cells[i].key = key
    THEN CHOOSE i \in 1..Len(hash.cells) : hash.cells[i].key = key
    ELSE 0

\* cells.get(key), the empty list standing for undefined
CellAt(hash, key) ==
    IF CellIndex(hash, key) = 0 THEN <<>> ELSE hash.cells[CellIndex(hash, key)].items

\* The spatial hash, clear
clear(hash) == [hash EXCEPT !.cells = <<>>]

\* The spatial hash, getKey: Math.floor of the quotients
getKey(hash, x, z) == <<x \div hash.cellSize, z \div hash.cellSize>>

\* An insert that rounds the quotients toward zero
insertTruncated(hash, entity) ==
    LET trunc(a) == IF a >= 0 THEN a \div hash.cellSize ELSE -((-a) \div hash.cellSize)
        key == <<trunc(entity.position[1]), trunc(entity.position[3])>>
    IN IF CellIndex(hash, key) = 0
       THEN [hash EXCEPT !.cells = Append(@, [key |-> key, items |-> <<entity>>])]
       ELSE [hash EXCEPT !.cells[CellIndex(hash, key)].items = Append(@, entity)]

\* The spatial hash, insert
insert(hash, entity) ==
    Let(getKey(hash, entity.position[1], entity.position[3]), LAMBDA key :
    IF CellIndex(hash, key) = 0
    THEN [hash EXCEPT !.cells = Append(@, [key |-> key, items |-> <<entity>>])]
    ELSE [hash EXCEPT !.cells[CellIndex(hash, key)].items = Append(@, entity)])

\* The contents of the cells from the i-th of the (2 cellRadius + 1)^2 cells
\* around cell (cx, cz) on, in the order of the two loops
RECURSIVE NearbyFrom(_, _, _, _, _)
NearbyFrom(hash, cx, cz, cellRadius, i) ==
    LET side == 2 * cellRadius + 1
    IN IF i > side * side THEN <<>>
       ELSE CellAt(hash, <<cx - cellRadius + ((i - 1) \div side),
                           cz - cellRadius + ((i - 1) % side)>>)
               \o NearbyFrom(hash, cx, cz, cellRadius, i + 1)

\* The spatial hash, getNearby; Math.ceil(radius / cellSize) for a radius
\* that is not negative
getNearby(hash, x, z, radius) ==
    NearbyFrom(hash, x \div hash.cellSize, z \div hash.cellSize,
               -((-radius) \div hash.cellSize), 1)

\* Collision.resolveCircleCollision: the push on entity1 (x, z), or the null
\* result (x = z = 0 with none set). push is the random direction used when
\* the centers coincide.
resolveCircleCollision(entity1, entity2, push) ==
    Let(entity2.position[1] - entity1.position[1], LAMBDA dx :
    Let(entity2.position[3] - entity1.position[3], LAMBDA dz :
    Let(Sqrt(dx * dx + dz * dz), LAMBDA dist :
    Let((entity1.collisionRadius + entity2.collisionRadius) - dist, LAMBDA overlap :
    IF dist < 1 THEN [none |-> FALSE, x |-> push[1], z |-> push[2]]
    ELSE IF overlap > 0
         THEN [none |-> FALSE, x |-> RDiv(-dx * overlap, 2 * dist),
                               z |-> RDiv(-dz * overlap, 2 * dist)]
         ELSE [none |-> TRUE, x |-> 0, z |-> 0]))))

\* --------------------------------------------------------------- Terrain
TerrainSize == 20000
Bounds == [minX |-> -(TerrainSize \div 2), maxX |-> TerrainSize \div 2,
           minZ |-> -(TerrainSize \div 2), maxZ |-> TerrainSize \div 2]

\* Terrain.isInBounds
isInBounds(x, z, margin) ==
    /\ x >= Bounds.minX + margin /\ x <= Bounds.maxX - margin
    /\ z >= Bounds.minZ + margin /\ z <= Bounds.maxZ - margin

\* A clamp of x alone
clampXToBounds(position, margin) ==
    <<Clamp(position[1], Bounds.minX + margin, Bounds.maxX - margin), position[2], position[3]>>

\* Terrain.clampToBounds
clampToBounds(position, margin) ==
    <<Clamp(position[1], Bounds.minX + margin, Bounds.maxX - margin),
      position[2],
      Clamp(position[3], Bounds.minZ + margin, Bounds.maxZ - margin)>>

\* mountainRadius = 8 * mountain.scale (scale in thousandths)
MountainRadius(mountain) == RDiv(800 * mountain.scale, 1000)

\* -------------------------------------------------------------- Physics
\* PhysicsEngine.updateTankMovement
updateTankMovement(tank, input, deltaTime, config) ==
    Let(angleToVector(tank.rotation), LAMBDA forward :
    Let(RDiv(tank.velocity[1] * forward[1] + tank.velocity[3] * forward[3], 1000),
        LAMBDA currentSpeed :
    Let(LET targetSpeed == IF input.backward THEN -RDiv(config.maxSpeed, 2)
                           ELSE IF input.forward THEN config.maxSpeed ELSE 0
            accel == RDiv(config.acceleration * deltaTime, 1000)
            decel == RDiv(config.deceleration * deltaTime, 1000)
            sign == IF currentSpeed > 0 THEN 1 ELSE -1
            coast == currentSpeed - sign * RDiv(config.deceleration * deltaTime, 2000)
        IN IF targetSpeed > currentSpeed THEN Min(targetSpeed, currentSpeed + accel)
           ELSE IF targetSpeed < currentSpeed THEN Max(targetSpeed, currentSpeed - decel)
           ELSE IF Abs(currentSpeed) > 1
                THEN (IF sign * coast < 0 THEN 0 ELSE coast)
                ELSE 0,
        LAMBDA newSpeed :
    Let(<<RDiv(forward[1] * newSpeed, 1000), tank.velocity[2],
          RDiv(forward[3] * newSpeed, 1000)>>,
        LAMBDA velocity :
    LET effectiveTurnSpeed == IF Abs(newSpeed) > 5 THEN config.turnSpeedMoving
                              ELSE config.turnSpeed
        turn == RDiv(effectiveTurnSpeed * deltaTime, 1000)
    IN [tank EXCEPT !.velocity = velocity,
                    !.rotation = normalizeAngle(tank.rotation
                                                + (IF input.left THEN turn ELSE 0)
                                                - (IF input.right THEN turn ELSE 0)),
                    !.position = <<tank.position[1] + Move(velocity[1], deltaTime),
                                   tank.position[2],
                                   tank.position[3] + Move(velocity[3], deltaTime)>>,
                    !.currentSpeed = newSpeed]))))

GRAVITY == -98

\* PhysicsEngine.calculateBallisticShot, line 226: 100 times the discriminant
\* v^4 - g (g d^2 + 2 dy v^2), with g = 9.8
BallisticDiscriminant(dx, dy, dz, speed) ==
    Let(RDiv(speed * speed, 100), LAMBDA v2 :
    100 * v2 * v2 - 98 * 98 * RDiv(dx * dx + dz * dz, 10000) - 98 * RDiv(dy * v2, 5))

\* PhysicsEngine.calculateBallisticShot, lines 228-236: the straight shot with an arc
BallisticStraight(dx, dy, dz, speed) ==
    Let(Sqrt(dx * dx + dy * dy + dz * dz), LAMBDA len :
    [branch |-> "straight", nan |-> FALSE,
     velocity |-> <<RDiv(dx * speed, len), RDiv(dy * speed, len) + 50, RDiv(dz * speed, len)>>])

\* PhysicsEngine.calculateBallisticShot, lines 238-252: the low trajectory.
\* With no horizontal distance the direction is 0 / 0, and x and z are NaN.
BallisticLow(dx, dy, dz, speed, discriminant) ==
    Let(Sqrt(dx * dx + dz * dz), LAMBDA horizontalDist :
    Let(Atan2(10 * RDiv(speed * speed, 100) - Sqrt(discriminant),
              RDiv(98 * horizontalDist, 100)), LAMBDA angle :
    Let(RDiv(speed * Cos(angle), 1000), LAMBDA vHorizontal :
    Let(RDiv(speed * Sin(angle), 1000), LAMBDA vVertical :
    IF horizontalDist = 0
    THEN [branch |-> "low", nan |-> TRUE, velocity |-> <<0, vVertical, 0>>]
    ELSE [branch |-> "low", nan |-> FALSE,
          velocity |-> <<RDiv(dx * vHorizontal, horizontalDist), vVertical,
                         RDiv(dz * vHorizontal, horizontalDist)>>]))))

\* PhysicsEngine.calculateBallisticShot: positions in hundredths of a unit,
\* speed and velocity in tenths of a unit per second
calculateBallisticShot(origin, target, speed) ==
    Let(target[1] - origin[1], LAMBDA dx :
    Let(target[2] - origin[2], LAMBDA dy :
    Let(target[3] - origin[3], LAMBDA dz :
    Let(BallisticDiscriminant(dx, dy, dz, speed), LAMBDA discriminant :
    IF discriminant < 0 THEN BallisticStraight(dx, dy, dz, speed)
    ELSE BallisticLow(dx, dy, dz, speed, discriminant)))))

\* PhysicsEngine.updateStraightProjectile
updateStraightProjectile(projectile, deltaTime) ==
    [projectile EXCEPT !.position =
        <<projectile.position[1] + Move(projectile.velocity[1], deltaTime),
          projectile.position[2] + Move(projectile.velocity[2], deltaTime),
          projectile.position[3] + Move(projectile.velocity[3], deltaTime)>>]

\* PhysicsEngine.updateBallisticProjectile: the projectile and the hitGround flag
updateBallisticProjectile(projectile, deltaTime) ==
    Let(updateStraightProjectile(
            [projectile EXCEPT !.velocity[2] = @ + RDiv(GRAVITY * deltaTime, 1000)], deltaTime),
        LAMBDA moved :
    IF moved.position[2] <= 0
    THEN [projectile |-> [moved EXCEPT !.position[2] = 0], hitGround |-> TRUE]
    ELSE [projectile |-> moved, hitGround |-> FALSE])

\* A vector scaled to length 1000 (left as it is below length 0.001).
Normalize(v) ==
    Let(Sqrt(v[1] * v[1] + v[2] * v[2] + v[3] * v[3]), LAMBDA len :
    IF len > 0
    THEN <<RDiv(v[1] * 1000, len), RDiv(v[2] * 1000, len), RDiv(v[3] * 1000, len)>>
    ELSE v)

\* A missile that stops where it is when its target is dead
updateGuidedMissileInert(missile, target, deltaTime) ==
    IF target.id = NULL \/ ~target.alive THEN missile
    ELSE updateStraightProjectile(missile, deltaTime)

\* PhysicsEngine.updateGuidedMissile; target is the entity the missile refers
\* to (NoTarget for a null reference).
updateGuidedMissile(missile, target, deltaTime) ==
    IF target.id = NULL THEN missile
    ELSE IF ~target.alive THEN updateStraightProjectile(missile, deltaTime)
    ELSE
    Let(Normalize(<<target.position[1] - missile.position[1],
                    target.position[2] + 150 - missile.position[2],
                    target.position[3] - missile.position[3]>>), LAMBDA toTarget :
    Let(Normalize(missile.velocity), LAMBDA currentDir :
    Let(Min(1000, RDiv(missile.turnRate * deltaTime, 100)), LAMBDA t :
    Let(<<Lerp(currentDir[1], toTarget[1], t), Lerp(currentDir[2], toTarget[2], t),
          Lerp(currentDir[3], toTarget[3], t)>>, LAMBDA newDir :
    Let(Sqrt(newDir[1] * newDir[1] + newDir[2] * newDir[2] + newDir[3] * newDir[3]),
        LAMBDA newDirLen :
    Let(IF newDirLen > 0
        THEN <<RDiv(newDir[1] * missile.speed, newDirLen),
               RDiv(newDir[2] * missile.speed, newDirLen),
               RDiv(newDir[3] * missile.speed, newDirLen)>>
        ELSE missile.velocity, LAMBDA velocity :
    Let(<<missile.position[1] + Move(velocity[1], deltaTime),
          missile.position[2] + Move(velocity[2], deltaTime),
          missile.position[3] + Move(velocity[3], deltaTime)>>, LAMBDA position :
    LET low == position[2] < 50
    IN [missile EXCEPT
            !.velocity = IF low /\ velocity[2] < 0 THEN <<velocity[1], 0, velocity[3]>> ELSE velocity,
            !.position = IF low THEN <<position[1], 50, position[3]>> ELSE position,
            !.rotation = Atan2(velocity[1], velocity[3])])))))))

\* --------------------------------------------------------------- Player
NoInput == [forward |-> FALSE, backward |-> FALSE, left |-> FALSE, right |-> FALSE,
            turretUp |-> FALSE, turretDown |-> FALSE]

InvulnerabilityDuration == 3000
MaxTurretPitch == 79
MinTurretPitch == -26

\* Player.constructor / Player2.constructor
NewPlayer(id, position) ==
    [id |-> id, position |-> position, rotation |-> 0, velocity |-> <<0, 0, 0>>,
     collisionRadius |-> 200, height |-> 250,
     maxSpeed |-> 150, acceleration |-> 250, deceleration |-> 200, turnSpeed |-> 200,
     currentSpeed |-> 0, turretPitch |-> 0,
     alive |-> TRUE, invulnerable |-> FALSE, invulnerabilityTime |-> 0,
     canShoot |-> TRUE, flashTimer |-> 0, input |-> NoInput]

\* Player.update, lines 591-600: the invulnerability countdown
PlayerInvulnerabilityStep(p, deltaTime) ==
    IF ~p.invulnerable THEN p
    ELSE IF p.invulnerabilityTime - deltaTime <= 0
         THEN [p EXCEPT !.invulnerabilityTime = p.invulnerabilityTime - deltaTime,
                        !.invulnerable = FALSE, !.flashTimer = 0]
         ELSE [p EXCEPT !.invulnerabilityTime = p.invulnerabilityTime - deltaTime,
                        !.flashTimer = p.flashTimer + deltaTime]

\* A turret without stops
PlayerTurretFree(p, deltaTime) ==
    [p EXCEPT !.turretPitch = @ + (IF p.input.turretUp THEN RDiv(deltaTime, 10) ELSE 0)
                                - (IF p.input.turretDown THEN RDiv(deltaTime, 10) ELSE 0)]

\* Player.update, lines 613-619: the turret pitch
PlayerTurretStep(p, deltaTime) ==
    Let(IF p.input.turretUp
        THEN Min(MaxTurretPitch, p.turretPitch + RDiv(deltaTime, 10))
        ELSE p.turretPitch, LAMBDA up :
    [p EXCEPT !.turretPitch = IF p.input.turretDown
                              THEN Max(MinTurretPitch, up - RDiv(deltaTime, 10))
                              ELSE up])

\* Player.update, lines 626-653: back to the old position on an obstacle or a mountain
PlayerTerrainStep(p, oldPosition, obstacles, mountains) ==
    LET back(q) == [q EXCEPT !.position = <<oldPosition[1], q.position[2], oldPosition[3]>>,
                             !.velocity = <<0, q.velocity[2], 0>>]
    IN Let(IF checkObstacleCollision(p.position, p.collisionRadius, obstacles)
           THEN back(p) ELSE p, LAMBDA p1 :
       IF \E i \in 1..Len(mountains) :
            circleVsCircle(p1.position[1], p1.position[3], p1.collisionRadius,
                           mountains[i].position[1], mountains[i].position[3],
                           MountainRadius(mountains[i]))
       THEN back(p1) ELSE p1)

\* Player.update, lines 655-670: pushed off every live enemy it overlaps, in order
RECURSIVE PlayerEnemyStep(_, _, _, _)
PlayerEnemyStep(p, enemies, i, push) ==
    IF i > Len(enemies) THEN p
    ELSE Let(resolveCircleCollision(p, enemies[i], push), LAMBDA resolution :
         IF enemies[i].alive
            /\ circleVsCircle(p.position[1], p.position[3], p.collisionRadius,
                              enemies[i].position[1], enemies[i].position[3],
                              enemies[i].collisionRadius)
            /\ ~resolution.none
         THEN PlayerEnemyStep(
                 [p EXCEPT !.position = <<p.position[1] + resolution.x, p.position[2],
                                          p.position[3] + resolution.z>>],
                 enemies, i + 1, push)
         ELSE PlayerEnemyStep(p, enemies, i + 1, push))

\* Player.update
PlayerUpdate(p, deltaTime, obstacles, mountains, enemies, push) ==
    IF ~p.alive THEN p
    ELSE Let(PlayerInvulnerabilityStep(p, deltaTime), LAMBDA p1 :
         Let(updateTankMovement(p1, p1.input, deltaTime,
                [maxSpeed |-> p1.maxSpeed, acceleration |-> p1.acceleration,
                 deceleration |-> p1.deceleration, turnSpeed |-> p1.turnSpeed,
                 turnSpeedMoving |-> 150]), LAMBDA p2 :
         Let(PlayerTerrainStep(PlayerTurretStep(p2, deltaTime), p.position, obstacles, mountains),
             LAMBDA p4 :
         Let(PlayerEnemyStep(p4, enemies, 1, push), LAMBDA p5 :
         [p5 EXCEPT !.position = clampToBounds(p5.position, 1000)]))))

\* A takeDamage that ignores the invulnerable flag
PlayerTakeDamageAlways(p) == [entity |-> [p EXCEPT !.alive = FALSE], killed |-> TRUE]

\* Player.takeDamage: the player and the returned flag
PlayerTakeDamage(p) ==
    IF p.invulnerable THEN [entity |-> p, killed |-> FALSE]
    ELSE [entity |-> [p EXCEPT !.alive = FALSE], killed |-> TRUE]

\* A respawn that grants no invulnerability
PlayerRespawnUnprotected(p, position) ==
    [p EXCEPT !.position = position, !.rotation = 0, !.velocity = <<0, 0, 0>>,
              !.alive = TRUE, !.turretPitch = 0]

\* Player.respawn
PlayerRespawn(p, position) ==
    [p EXCEPT !.position = position, !.rotation = 0, !.velocity = <<0, 0, 0>>,
              !.alive = TRUE, !.invulnerable = TRUE,
              !.invulnerabilityTime = InvulnerabilityDuration, !.turretPitch = 0]

\* Player.getShootDirection
PlayerShootDirection(p) ==
    Let(angleToVector(p.rotation), LAMBDA forward :
    Let(Cos(p.turretPitch), LAMBDA cosPitch :
    <<RDiv(forward[1] * cosPitch, 1000), Sin(p.turretPitch),
      RDiv(forward[3] * cosPitch, 1000)>>))

\* ------------------------------------------------------------ EnemyTank
\* EnemyTank.constructor; cfg carries the spawn configuration and the draws of
\* Math.random (rotation, moveDuration, shootTimer).
NewEnemyTank(id, cfg) ==
    [kind |-> "tank", id |-> id, position |-> cfg.position, rotation |-> cfg.rotation,
     collisionRadius |-> 200, height |-> 250,
     maxSpeed |-> cfg.maxSpeed, turnSpeed |-> 120,
     targetRotation |-> cfg.rotation, moveTimer |-> 0, moveDuration |-> cfg.moveDuration,
     state |-> "wander", playerBias |-> cfg.playerBias,
     alive |-> TRUE, shootTimer |-> cfg.shootTimer, shootCooldown |-> cfg.shootCooldown,
     invulnerable |-> FALSE, shouldShoot |-> FALSE, hasLineOfSight |-> TRUE,
     points |-> 100]

\* Math.ceil(dist / 5) of checkLineOfSight, from the squared distance
LineOfSightSteps(d2) ==
    LET n == Sqrt(d2) \div 500
    IN IF 250000 * n * n >= d2 THEN n ELSE n + 1

\* The sample point i of steps on the segment from `from` to `to`
SamplePoint(from, to, i, steps) ==
    <<from[1] + RDiv((to[1] - from[1]) * i, steps), from[3] + RDiv((to[3] - from[3]) * i, steps)>>

InsideMountain(point, mountain) ==
    LET mdx == point[1] - mountain.position[1]
        mdz == point[2] - mountain.position[3]
        r == MountainRadius(mountain)
    IN mdx * mdx + mdz * mdz < r * r

\* EnemyTank.checkLineOfSight: the loop over the sample points 1 .. steps - 1
RECURSIVE LineOfSightFrom(_, _, _, _, _)
LineOfSightFrom(from, to, i, steps, mountains) ==
    IF i >= steps THEN TRUE
    ELSE IF \E point \in {SamplePoint(from, to, i, steps)} :
                \E m \in 1..Len(mountains) : InsideMountain(point, mountains[m])
         THEN FALSE
         ELSE LineOfSightFrom(from, to, i + 1, steps, mountains)

checkLineOfSight(position, targetPos, mountains) ==
    LET dx == targetPos[1] - position[1]
        dz == targetPos[3] - position[3]
    IN LineOfSightFrom(position, targetPos, 1, LineOfSightSteps(dx * dx + dz * dz), mountains)

\* EnemyTank.updateAI, lines 151-173: the change of direction
TankChooseDirection(e, player, levelBias, rnd) ==
    IF e.moveTimer < e.moveDuration THEN e
    ELSE IF player.alive /\ rnd.biasRoll < levelBias
         THEN [e EXCEPT !.moveTimer = 0, !.moveDuration = rnd.moveDuration,
                        !.targetRotation = Atan2(player.position[1] - e.position[1],
                                                 player.position[3] - e.position[3]) + rnd.noise,
                        !.state = "pursue"]
         ELSE [e EXCEPT !.moveTimer = 0, !.moveDuration = rnd.moveDuration,
                        !.targetRotation = rnd.randomDir,
                        !.state = "wander"]

\* The bearing of the player from the tank
AngleToPlayer(e, player) ==
    Atan2(player.position[1] - e.position[1], player.position[3] - e.position[3])

AimTolerance == 30

\* The shooting logic without the line-of-sight condition
TankShootBlind(e, player, shootInterval) ==
    IF player.alive /\ e.shootTimer <= 0
    THEN Let(AngleToPlayer(e, player), LAMBDA angleToPlayer :
         IF Abs(normalizeAngle(angleToPlayer - e.rotation)) < AimTolerance
         THEN [e EXCEPT !.targetRotation = angleToPlayer,
                        !.state = "shoot", !.shouldShoot = TRUE,
                        !.shootTimer = shootInterval]
         ELSE [e EXCEPT !.targetRotation = angleToPlayer])
    ELSE e

\* A shooting logic that fires without starting the timer again
TankShootRapid(e, player, shootInterval) ==
    IF player.alive /\ e.shootTimer <= 0
    THEN Let(AngleToPlayer(e, player), LAMBDA angleToPlayer :
         IF Abs(normalizeAngle(angleToPlayer - e.rotation)) < AimTolerance /\ e.hasLineOfSight
         THEN [e EXCEPT !.targetRotation = angleToPlayer,
                        !.state = "shoot", !.shouldShoot = TRUE]
         ELSE [e EXCEPT !.targetRotation = angleToPlayer])
    ELSE e

\* EnemyTank.updateAI, lines 175-196: the shooting logic
TankShootLogic(e, player, shootInterval) ==
    IF player.alive /\ e.shootTimer <= 0
    THEN Let(AngleToPlayer(e, player), LAMBDA angleToPlayer :
         IF Abs(normalizeAngle(angleToPlayer - e.rotation)) < AimTolerance /\ e.hasLineOfSight
         THEN [e EXCEPT !.targetRotation = angleToPlayer,
                        !.state = "shoot", !.shouldShoot = TRUE,
                        !.shootTimer = shootInterval]
         ELSE [e EXCEPT !.targetRotation = angleToPlayer])
    ELSE e

\* An AI that keeps its state when the player is dead
updateAIHeedless(e, player, level, mountains, rnd) ==
    Let([e EXCEPT !.hasLineOfSight =
                      IF player.alive THEN checkLineOfSight(e.position, player.position, mountains)
                      ELSE TRUE], LAMBDA e2 :
    TankShootLogic(TankChooseDirection(e2, player, Min(900, e.playerBias + level * 50), rnd),
                   player, Max(1000, e.shootCooldown - level * 200)))

\* EnemyTank.updateAI
updateAI(e, player, level, mountains, rnd) ==
    Let([e EXCEPT !.state = IF ~player.alive THEN "wander" ELSE @,
                  !.hasLineOfSight =
                      IF player.alive THEN checkLineOfSight(e.position, player.position, mountains)
                      ELSE TRUE], LAMBDA e2 :
    TankShootLogic(TankChooseDirection(e2, player, Min(900, e.playerBias + level * 50), rnd),
                   player, Max(1000, e.shootCooldown - level * 200)))

\* EnemyTank.update, lines 45-55: the turn toward targetRotation
TankRotate(e, deltaTime) ==
    Let(normalizeAngle(e.targetRotation - e.rotation), LAMBDA rotDiff :
    Let(RDiv(e.turnSpeed * deltaTime, 1000), LAMBDA rotStep :
    [e EXCEPT !.rotation = normalizeAngle(IF Abs(rotDiff) > rotStep
                                          THEN e.rotation + Sign(rotDiff) * rotStep
                                          ELSE e.targetRotation)]))

\* A move forward in whatever state the tank is
TankAdvanceAlways(e, deltaTime, rnd) ==
    Let(angleToVector(e.rotation), LAMBDA forward :
    Let(RDiv(e.maxSpeed * (500 + rnd.jitter \div 2), 1000), LAMBDA speed :
    [e EXCEPT !.position =
        <<e.position[1] + Move(RDiv(forward[1] * speed, 1000), deltaTime),
          e.position[2],
          e.position[3] + Move(RDiv(forward[3] * speed, 1000), deltaTime)>>]))

\* EnemyTank.update, lines 57-66: the move forward, not in state shoot
TankAdvance(e, deltaTime, rnd) ==
    IF e.state = "shoot" THEN e
    ELSE Let(angleToVector(e.rotation), LAMBDA forward :
         Let(RDiv(e.maxSpeed * (500 + rnd.jitter \div 2), 1000), LAMBDA speed :
         [e EXCEPT !.position =
             <<e.position[1] + Move(RDiv(forward[1] * speed, 1000), deltaTime),
               e.position[2],
               e.position[3] + Move(RDiv(forward[3] * speed, 1000), deltaTime)>>]))

\* A tank that nothing stops
TankUnblocked(e, oldPosition, player, obstacles, mountains, rnd) == e

\* EnemyTank.update, lines 73-114: the blocked move is undone and the tank turns away
TankBlocked(e, oldPosition, player, obstacles, mountains, rnd) ==
    LET back(q, heading) ==
            [q EXCEPT !.position = <<oldPosition[1], q.position[2], oldPosition[3]>>,
                      !.targetRotation = heading, !.moveTimer = 0]
    IN Let(IF checkObstacleCollision(e.position, e.collisionRadius, obstacles)
           THEN back(e, e.rotation + HALF_PI + rnd.turn) ELSE e, LAMBDA e1 :
       Let(IF \E i \in 1..Len(mountains) :
                 circleVsCircle(e1.position[1], e1.position[3], e1.collisionRadius,
                                mountains[i].position[1], mountains[i].position[3],
                                MountainRadius(mountains[i]))
           THEN back(e1, e1.rotation + HALF_PI + rnd.turn) ELSE e1, LAMBDA e2 :
       IF player.alive
          /\ circleVsCircle(e2.position[1], e2.position[3], e2.collisionRadius,
                            player.position[1], player.position[3], player.collisionRadius)
       THEN back(e2, e2.rotation + PI) ELSE e2))

\* EnemyTank.update, lines 116-130: pushed off every other live enemy it overlaps
RECURSIVE TankSeparate(_, _, _, _)
TankSeparate(e, others, i, push) ==
    IF i > Len(others) THEN e
    ELSE Let(resolveCircleCollision(e, others[i], push), LAMBDA resolution :
         IF others[i].id # e.id /\ others[i].alive
            /\ circleVsCircle(e.position[1], e.position[3], e.collisionRadius,
                              others[i].position[1], others[i].position[3],
                              others[i].collisionRadius)
            /\ ~resolution.none
         THEN TankSeparate(
                 [e EXCEPT !.position = <<e.position[1] + resolution.x, e.position[2],
                                          e.position[3] + resolution.z>>],
                 others, i + 1, push)
         ELSE TankSeparate(e, others, i + 1, push))

\* EnemyTank.update
EnemyTankUpdate(e, deltaTime, player, obstacles, mountains, otherEnemies, level, rnd) ==
    IF ~e.alive THEN e
    ELSE Let(TankRotate(updateAI([e EXCEPT !.moveTimer = e.moveTimer + deltaTime,
                                           !.shootTimer = e.shootTimer - deltaTime],
                                 player, level, mountains, rnd), deltaTime), LAMBDA e3 :
         Let(TankSeparate(TankBlocked(TankAdvance(e3, deltaTime, rnd), e3.position, player,
                                      obstacles, mountains, rnd),
                          otherEnemies, 1, rnd.push), LAMBDA e6 :
         [e6 EXCEPT !.position = clampToBounds(e6.position, 1500)]))

\* EnemyTank.getShootDirection
TankShootDirection(e, player) ==
    Normalize(<<player.position[1] - e.position[1], 100 - e.position[2],
                player.position[3] - e.position[3]>>)

\* EnemyTank.takeDamage
TankTakeDamage(e) ==
    IF e.invulnerable THEN [entity |-> e, killed |-> FALSE]
    ELSE [entity |-> [e EXCEPT !.alive = FALSE], killed |-> TRUE]

\* ------------------------------------------------------------------ UFO
\* UFO.constructor; cfg carries the position and the draws of Math.random.
NewUFO(id, cfg) ==
    [kind |-> "ufo", id |-> id, position |-> cfg.position, rotation |-> 0,
     collisionRadius |-> 300, height |-> 200, speed |-> 40,
     alive |-> TRUE, shootTimer |-> cfg.shootTimer, shootCooldown |-> 6000,
     points |-> 500, moveAngle |-> cfg.moveAngle, bobPhase |-> cfg.bobPhase,
     shouldShoot |-> FALSE]

\* UFO.update
UFOUpdate(u, deltaTime, player) ==
    IF ~u.alive THEN u
    ELSE Let(u.shootTimer - deltaTime, LAMBDA shootTimer :
         Let(u.moveAngle + RDiv(10 * deltaTime, 1000), LAMBDA moveAngle :
         Let(u.bobPhase + RDiv(150 * deltaTime, 1000), LAMBDA bobPhase :
         Let(player.alive /\ shootTimer <= 0, LAMBDA fire :
         [u EXCEPT !.rotation = u.rotation + RDiv(30 * deltaTime, 1000),
                   !.moveAngle = moveAngle,
                   !.bobPhase = bobPhase,
                   !.position = clampToBounds(
                       <<u.position[1] + Move(RDiv(Cos(moveAngle) * u.speed, 1000), deltaTime),
                         1200 + RDiv(Sin(bobPhase) * 200, 1000),
                         u.position[3] + Move(RDiv(Sin(moveAngle) * u.speed, 1000), deltaTime)>>,
                       2000),
                   !.shouldShoot = IF fire THEN TRUE ELSE u.shouldShoot,
                   !.shootTimer = IF fire THEN u.shootCooldown ELSE shootTimer]))))

\* UFO.getShootDirection
UFOShootDirection(u, player) ==
    Normalize(<<player.position[1] - u.position[1],
                player.position[2] + 100 - u.position[2],
                player.position[3] - u.position[3]>>)

\* UFO.takeDamage
UFOTakeDamage(u) == [entity |-> [u EXCEPT !.alive = FALSE], killed |-> TRUE]

\* --------------------------------------------------------------- Terrain spawn
\* Terrain.getRandomSpawnPosition: up to 50 attempts; the first valid one is
\* returned, otherwise the last one tried.  draw.first is the position of the
\* first attempt and draw.rest the position of every later attempt.
SpawnPositionValid(position, avoidPositions, minDistance, obstacles) ==
    /\ \A i \in 1..Len(avoidPositions) :
          LET dx == position[1] - avoidPositions[i][1]
              dz == position[3] - avoidPositions[i][3]
          IN ~(dx * dx + dz * dz < minDistance * minDistance)
    /\ ~checkObstacleCollision(position, 500, obstacles)

getRandomSpawnPosition(draw, avoidPositions, minDistance, obstacles) ==
    IF SpawnPositionValid(draw.first, avoidPositions, minDistance, obstacles)
    THEN draw.first ELSE draw.rest

\* Terrain.getEdgeSpawnPosition: up to 30 attempts, rejected in front of the
\* player and closer than 20 units to an avoided position.
EdgeSpawnValid(position, avoidPositions, viewDirection) ==
    /\ ~((position[1] - viewDirection.from[1]) * viewDirection.dir[1]
          + (position[3] - viewDirection.from[3]) * viewDirection.dir[3] > 0)
    /\ \A i \in 1..Len(avoidPositions) :
          LET dx == position[1] - avoidPositions[i][1]
              dz == position[3] - avoidPositions[i][3]
          IN ~(dx * dx + dz * dz < 2000 * 2000)

getEdgeSpawnPosition(draw, avoidPositions, viewDirection) ==
    IF EdgeSpawnValid(draw.first, avoidPositions, viewDirection)
    THEN draw.first ELSE draw.rest

\* Terrain.checkObstacleOverlap
checkObstacleOverlap(position, minDistance, obstacles) ==
    \E i \in 1..Len(obstacles) :
        LET dx == position[1] - obstacles[i].position[1]
            dz == position[3] - obstacles[i].position[3]
        IN dx * dx + dz * dz < minDistance * minDistance

\* The caps of the attempts of the position searches
ObstacleAttempts == 20
RandomAttempts == 50
EdgeAttempts == 30
EdgeMargin == 1500

\* The draw of Math.random a search makes for its next try; the draws of a
\* search repeat after the last
NextDraw(s) == s.draws[(Len(s.tried) % Len(s.draws)) + 1]

\* A search that never gives up
SearchGoesOn(attempts, cap) == TRUE

\* The loop condition of a search on its counter
AttemptsLeft(attempts, cap) == attempts < cap

\* A search after the try of a position that lets it return at once (found),
\* or count the try and go round
SearchTried(s, position, found, cap) ==
    [s EXCEPT !.position = position,
              !.tried = Append(@, position),
              !.attempts = IF found THEN @ ELSE @ + 1,
              !.done = found \/ ~AttemptsLeft(s.attempts + 1, cap)]

\* Terrain.generateObstacles, lines 69-76: one round of the loop that places an
\* obstacle among those already placed
ObstacleSearchStep(s) ==
    Let(NextDraw(s), LAMBDA position :
    [s EXCEPT !.position = position,
              !.tried = Append(@, position),
              !.attempts = @ + 1,
              !.done = ~(checkObstacleOverlap(position, 800, s.obstacles)
                         /\ AttemptsLeft(s.attempts + 1, ObstacleAttempts))])

\* Terrain.getRandomSpawnPosition, lines 239-266: one round of the loop
RandomSearchStep(s) ==
    Let(NextDraw(s), LAMBDA position :
    SearchTried(s, position,
                SpawnPositionValid(position, s.avoidPositions, s.minDistance, s.obstacles),
                RandomAttempts))

\* Terrain.getEdgeSpawnPosition, lines 276-307: the position on the drawn side
EdgePosition(side, along) ==
    CASE side = 0 -> <<along, 0, Bounds.maxZ - EdgeMargin>>
      [] side = 1 -> <<Bounds.maxX - EdgeMargin, 0, along>>
      [] side = 2 -> <<along, 0, Bounds.minZ + EdgeMargin>>
      [] side = 3 -> <<Bounds.minX + EdgeMargin, 0, along>>

\* Terrain.getEdgeSpawnPosition, lines 309-322: the position is in front of the viewer
\* (viewDirection is <<>> for null, else <<the direction>>)
InFront(position, viewDirection) ==
    /\ viewDirection # <<>>
    /\ (position[1] - viewDirection[1].from[1]) * viewDirection[1].dir[1]
         + (position[3] - viewDirection[1].from[3]) * viewDirection[1].dir[3] > 0

\* Terrain.getEdgeSpawnPosition, lines 324-336
FarFromAll(position, avoidPositions) ==
    \A i \in 1..Len(avoidPositions) :
        LET dx == position[1] - avoidPositions[i][1]
            dz == position[3] - avoidPositions[i][3]
        IN ~(dx * dx + dz * dz < 2000 * 2000)

\* Terrain.getEdgeSpawnPosition, lines 275-341: one round of the loop
EdgeSearchStep(s) ==
    Let(EdgePosition(NextDraw(s).side, NextDraw(s).along), LAMBDA position :
    SearchTried(s, position,
                ~InFront(position, s.viewDirection) /\ FarFromAll(position, s.avoidPositions),
                EdgeAttempts))

\* -------------------------------------------------------------- EnemyManager
DefaultMaxEnemies == 5
SpawnInterval == 5000

\* EnemyManager.constructor
NewEnemyManager ==
    [enemies |-> <<>>, ufo |-> <<>>, maxEnemies |-> DefaultMaxEnemies, spawnTimer |-> 0,
     difficultySettings |-> [enemyMaxSpeed |-> 50, enemyShootCooldown |-> 5000,
                             enemyPlayerBias |-> 400, ufoSpawnLevel |-> 3],
     nextId |-> 1]

\* EnemyManager.setDifficulty
setDifficulty(em, settings) ==
    [em EXCEPT !.difficultySettings =
        [enemyMaxSpeed |-> settings.enemyMaxSpeed,
         enemyShootCooldown |-> settings.enemyShootCooldown,
         enemyPlayerBias |-> settings.enemyPlayerBias,
         ufoSpawnLevel |-> settings.ufoSpawnLevel]]

SeqMap(Op(_), seq) == [i \in 1..Len(seq) |-> Op(seq[i])]
PositionOf(entity) == entity.position

\* EnemyManager.spawnEnemy
spawnEnemy(em, player, level, draw) ==
    IF Len(em.enemies) >= em.maxEnemies THEN em
    ELSE Let(getEdgeSpawnPosition(draw,
                <<player.position>> \o SeqMap(PositionOf, em.enemies),
                [from |-> player.position, dir |-> angleToVector(player.rotation)]),
             LAMBDA position :
         [em EXCEPT !.enemies = Append(@, NewEnemyTank("enemy_" \o ToString(em.nextId),
                        [position |-> position,
                         maxSpeed |-> em.difficultySettings.enemyMaxSpeed + level * 5,
                         shootCooldown |->
                             Max(2000, em.difficultySettings.enemyShootCooldown - level * 200),
                         playerBias |->
                             Min(850, em.difficultySettings.enemyPlayerBias + level * 50),
                         rotation |-> draw.rotation,
                         moveDuration |-> draw.moveDuration,
                         shootTimer |-> draw.shootTimer])),
                    !.nextId = @ + 1])

UfoAlive(em) == Len(em.ufo) = 1 /\ em.ufo[1].alive

\* EnemyManager.spawnUFO
spawnUFO(em, draw) ==
    IF UfoAlive(em) THEN em
    ELSE [em EXCEPT !.ufo = <<NewUFO("ufo_" \o ToString(em.nextId), draw)>>,
                    !.nextId = @ + 1]

IsAlive(entity) == entity.alive
AliveEnemies(em) == SelectSeq(em.enemies, IsAlive)

RemoveAt(seq, i) == SubSeq(seq, 1, i - 1) \o SubSeq(seq, i + 1, Len(seq))

\* EnemyManager.update, lines 424-434: the enemies are updated in list order,
\* each against the current state of the others
RECURSIVE UpdateEnemiesFrom(_, _, _, _, _, _, _, _)
UpdateEnemiesFrom(enemies, i, deltaTime, player, obstacles, mountains, level, rnd) ==
    IF i > Len(enemies) THEN enemies
    ELSE UpdateEnemiesFrom(
            [enemies EXCEPT ![i] = EnemyTankUpdate(enemies[i], deltaTime, player, obstacles,
                                                   mountains, RemoveAt(enemies, i), level, rnd)],
            i + 1, deltaTime, player, obstacles, mountains, level, rnd)

\* EnemyManager.update
EnemyManagerUpdate(em, deltaTime, player, obstacles, mountains, level, rnd) ==
    Let(IF Len(AliveEnemies(em)) < em.maxEnemies
           /\ (em.spawnTimer + deltaTime) * level >= SpawnInterval
        THEN [spawnEnemy(em, player, level, rnd.spawn[1]) EXCEPT !.spawnTimer = 0]
        ELSE [em EXCEPT !.spawnTimer = em.spawnTimer + deltaTime], LAMBDA em1 :
    Let([em1 EXCEPT !.enemies = UpdateEnemiesFrom(em1.enemies, 1, deltaTime, player,
                                                  obstacles, mountains, level, rnd)],
        LAMBDA em2 :
    IF UfoAlive(em2)
    THEN [em2 EXCEPT !.ufo = <<UFOUpdate(em2.ufo[1], deltaTime, player)>>]
    ELSE em2))

NeedsToShoot(entity) == entity.alive /\ entity.shouldShoot
ClearShouldShoot(entity) ==
    IF NeedsToShoot(entity) THEN [entity EXCEPT !.shouldShoot = FALSE] ELSE entity

\* EnemyManager.getEnemiesNeedingToShoot: the shooters, tanks first then the UFO
ShootersOf(em) ==
    SelectSeq(em.enemies, NeedsToShoot)
        \o (IF UfoAlive(em) /\ em.ufo[1].shouldShoot THEN em.ufo ELSE <<>>)

\* EnemyManager.getEnemiesNeedingToShoot: the manager with shouldShoot cleared
ShootersCleared(em) ==
    [em EXCEPT !.enemies = SeqMap(ClearShouldShoot, em.enemies),
               !.ufo = SeqMap(ClearShouldShoot, em.ufo)]

\* A cleanup that leaves the dead tanks in the list
keepDeadEnemies(em) == em

\* EnemyManager.removeDeadEnemies
removeDeadEnemies(em) == [em EXCEPT !.enemies = SelectSeq(em.enemies, IsAlive)]

\* EnemyManager.getAllEntities
getAllEntities(em) == em.enemies \o (IF UfoAlive(em) THEN em.ufo ELSE <<>>)

\* EnemyManager.getAliveCount
getAliveCount(em) == Len(AliveEnemies(em)) + (IF UfoAlive(em) THEN 1 ELSE 0)

\* EnemyManager.clear
EnemyManagerClear(em) == [em EXCEPT !.enemies = <<>>, !.ufo = <<>>, !.spawnTimer = 0]

\* EnemyManager.reset, lines 489-492: the loop of initial spawns
RECURSIVE SpawnInitial(_, _, _, _, _, _)
SpawnInitial(em, player, level, i, initialCount, draws) ==
    IF i > initialCount THEN em
    ELSE SpawnInitial(spawnEnemy(em, player, level, draws[i]), player, level,
                      i + 1, initialCount, draws)

\* EnemyManager.reset
EnemyManagerReset(em, player, level, initialCount, draws) ==
    SpawnInitial(EnemyManagerClear(em), player, level, 1, initialCount, draws)

\* ---------------------------------------------------------------- Projectile
\* Projectile.constructor with the defaults of the fields a caller leaves out
DefaultProjectile ==
    [ownerId |-> NULL, position |-> <<0, 100, 0>>, velocity |-> <<0, 0, 0>>, rotation |-> 0,
     speed |-> 500, lifetime |-> 5000, age |-> 0, alive |-> TRUE, type |-> "normal",
     target |-> NULL, turnRate |-> 350]

NewProjectile(config) ==
    [f \in DOMAIN DefaultProjectile |->
        IF f \in DOMAIN config THEN config[f] ELSE DefaultProjectile[f]]

\* The entity a guided missile refers to; it keeps its reference to an entity
\* that was removed from the game, which is then dead.
LookupTarget(targetId, targets) ==
    IF targetId = NULL THEN NoTarget
    ELSE IF \E i \in 1..Len(targets) : targets[i].id = targetId
         THEN targets[CHOOSE i \in 1..Len(targets) : targets[i].id = targetId]
         ELSE [id |-> targetId, alive |-> FALSE]

\* Projectile.update, lines 44-61: the motion by type
ProjectileMove(p, deltaTime, targets) ==
    CASE p.type = "ballistic" ->
            Let(updateBallisticProjectile(p, deltaTime), LAMBDA r :
            IF r.hitGround THEN [r.projectile EXCEPT !.alive = FALSE] ELSE r.projectile)
      [] p.type = "guided" -> updateGuidedMissile(p, LookupTarget(p.target, targets), deltaTime)
      [] OTHER -> updateStraightProjectile(p, deltaTime)

\* An update that ages a projectile and never ends it for its age
ProjectileUpdateAgeless(p, deltaTime, targets) ==
    IF ~p.alive THEN p
    ELSE Let(ProjectileMove([p EXCEPT !.age = p.age + deltaTime], deltaTime, targets),
             LAMBDA p1 :
         [p1 EXCEPT !.alive = IF ~isInBounds(p1.position[1], p1.position[3], -1000)
                                 \/ p1.position[2] < 0
                              THEN FALSE ELSE @])

\* An update that lets a projectile fly on below the ground
ProjectileUpdateNoGround(p, deltaTime, targets) ==
    IF ~p.alive THEN p
    ELSE IF p.age + deltaTime >= p.lifetime
         THEN [p EXCEPT !.age = p.age + deltaTime, !.alive = FALSE]
         ELSE Let(ProjectileMove([p EXCEPT !.age = p.age + deltaTime], deltaTime, targets),
                  LAMBDA p1 :
              [p1 EXCEPT !.alive = IF ~isInBounds(p1.position[1], p1.position[3], -1000)
                                   THEN FALSE ELSE @])

\* Projectile.update
ProjectileUpdate(p, deltaTime, targets) ==
    IF ~p.alive THEN p
    ELSE IF p.age + deltaTime >= p.lifetime
         THEN [p EXCEPT !.age = p.age + deltaTime, !.alive = FALSE]
         ELSE Let(ProjectileMove([p EXCEPT !.age = p.age + deltaTime], deltaTime, targets),
                  LAMBDA p1 :
              [p1 EXCEPT !.alive = IF ~isInBounds(p1.position[1], p1.position[3], -1000)
                                      \/ p1.position[2] < 0
                                   THEN FALSE ELSE @,
                         !.rotation = IF p1.velocity[1] # 0 \/ p1.velocity[3] # 0
                                      THEN Atan2(p1.velocity[1], p1.velocity[3]) ELSE @])

NoHit == [type |-> "none", target |-> NULL, targetAlive |-> FALSE]

\* Projectile.checkCollisions: the hit, or NoHit for null.  targetAlive records
\* the alive flag of the entity at the moment the hit is registered.
checkCollisions(p, obstacles, entities, excludeId) ==
    IF ~p.alive THEN NoHit
    ELSE Let({i \in 1..Len(obstacles) :
                 pointVsAabb(p.position[1], p.position[2], p.position[3],
                             ObstacleBox(obstacles[i]))}, LAMBDA boxes :
         Let(checkProjectileCollision(p, entities, excludeId), LAMBDA e :
         IF boxes # {}
         THEN [type |-> "obstacle",
               target |-> obstacles[CHOOSE i \in boxes : \A j \in boxes : i <= j].id,
               targetAlive |-> FALSE]
         ELSE IF e # 0
              THEN [type |-> "entity", target |-> entities[e].id,
                    targetAlive |-> entities[e].alive]
              ELSE NoHit))

\* ----------------------------------------------------------- ProjectileManager
maxProjectiles == 50

\* A creation that never evicts
createProjectileUnbounded(projectiles, config) == Append(projectiles, NewProjectile(config))

\* ProjectileManager.createProjectile
createProjectile(projectiles, config) ==
    Append(IF Len(projectiles) >= maxProjectiles THEN Tail(projectiles) ELSE projectiles,
           NewProjectile(config))

\* ProjectileManager.fireFromEntity for an entity with getShootDirection, no
\* targetPosition in the configuration
fireFromEntity(projectiles, entity, direction, config) ==
    Let(angleToVector(entity.rotation), LAMBDA forward :
    createProjectile(projectiles,
          [ownerId |-> entity.id,
           position |-> <<entity.position[1] + RDiv(forward[1] * 250, 1000),
                          entity.position[2] + 120,
                          entity.position[3] + RDiv(forward[3] * 250, 1000)>>,
           velocity |-> <<RDiv(direction[1] * config.speed, 1000),
                          RDiv(direction[2] * config.speed, 1000),
                          RDiv(direction[3] * config.speed, 1000)>>,
           rotation |-> entity.rotation,
           speed |-> config.speed,
           type |-> config.type]))

\* ProjectileManager.hasActiveProjectile
hasActiveProjectile(projectiles, ownerId) ==
    \E i \in 1..Len(projectiles) : projectiles[i].ownerId = ownerId /\ projectiles[i].alive

\* ProjectileManager.update, the body of the loop for one projectile: the
\* projectile after its update and the hit it registers
ProjectileStep(p, deltaTime, obstacles, entities, targets) ==
    Let(ProjectileUpdate(p, deltaTime, targets), LAMBDA moved :
    Let(checkCollisions(moved, obstacles, entities, moved.ownerId), LAMBDA hit :
    [projectile |-> IF hit.type # "none" THEN [moved EXCEPT !.alive = FALSE] ELSE moved,
     hit |-> [type |-> hit.type, target |-> hit.target, targetAlive |-> hit.targetAlive,
              ownerId |-> moved.ownerId]]))

\* ProjectileManager.update: the loop runs from the last projectile to the
\* first; dead projectiles are removed; the hits are returned in loop order.
RECURSIVE ProjectileLoop(_, _, _, _, _, _, _)
ProjectileLoop(projectiles, i, hits, deltaTime, obstacles, entities, targets) ==
    IF i < 1 THEN [projectiles |-> projectiles, hits |-> hits]
    ELSE Let(ProjectileStep(projectiles[i], deltaTime, obstacles, entities, targets), LAMBDA r :
         ProjectileLoop(
             IF r.projectile.alive THEN [projectiles EXCEPT ![i] = r.projectile]
             ELSE RemoveAt(projectiles, i),
             i - 1,
             IF r.hit.type # "none" THEN Append(hits, r.hit) ELSE hits,
             deltaTime, obstacles, entities, targets))

ProjectileManagerUpdate(projectiles, deltaTime, obstacles, entities, targets) ==
    ProjectileLoop(projectiles, Len(projectiles), <<>>, deltaTime, obstacles, entities, targets)

\* ------------------------------------------------------------ ParticleSystem
\* The particle list is kept as a sequence of runs, oldest first: a run stands
\* for `count` consecutive particles of the same age and lifetime.  Position,
\* velocity, colour and size of a particle are presentation and left out.
maxParticles == 500

RECURSIVE ParticleCount(_)
ParticleCount(runs) == IF runs = <<>> THEN 0 ELSE runs[1].count + ParticleCount(Tail(runs))

\* particles.pop(), the removal at the other end of the list
ParticlePop(runs) ==
    IF runs = <<>> THEN runs
    ELSE IF runs[Len(runs)].count > 1 THEN [runs EXCEPT ![Len(runs)].count = @ - 1]
    ELSE SubSeq(runs, 1, Len(runs) - 1)

\* particles.shift()
ParticleShift(runs) ==
    IF runs = <<>> THEN runs
    ELSE IF runs[1].count > 1 THEN [runs EXCEPT ![1].count = @ - 1]
    ELSE Tail(runs)

\* particles.push(...)
ParticlePush(runs, lifetime) ==
    IF runs # <<>> /\ runs[Len(runs)].age = 0 /\ runs[Len(runs)].lifetime = lifetime
    THEN [runs EXCEPT ![Len(runs)].count = @ + 1]
    ELSE Append(runs, [count |-> 1, age |-> 0, lifetime |-> lifetime])

\* ParticleSystem.emit, lines 272-292: one pass of the loop body
EmitStep(runs, lifetime) ==
    ParticlePush(IF ParticleCount(runs) >= maxParticles THEN ParticleShift(runs) ELSE runs,
                 lifetime)

\* ParticleSystem.emit, line 271: the passes first .. last - 1 of the loop, in
\* order (the range is halved to keep the evaluation shallow)
RECURSIVE EmitLoop(_, _, _, _)
EmitLoop(runs, first, last, lifetime) ==
    IF first >= last THEN runs
    ELSE IF last - first = 1 THEN EmitStep(runs, lifetime)
    ELSE Let(EmitLoop(runs, first, (first + last) \div 2, lifetime), LAMBDA half :
         EmitLoop(half, (first + last) \div 2, last, lifetime))

\* The number of passes of  for (i = 0; i < count; i++)  with count in tenths
EmitPasses(count) == (count + 9) \div 10

\* ParticleSystem.emit; factor is the draw 0.5 + Math.random() * 0.5 in thousandths
emit(runs, count, lifetime, factor) ==
    EmitLoop(runs, 0, EmitPasses(count), RDiv(lifetime * factor, 1000))

\* ParticleSystem.createExplosion, scale in tenths
createExplosion(runs, scale, factor) ==
    Let(emit(runs, 30 * scale, 500, factor), LAMBDA core :
    Let(emit(core, 20 * scale, 1500, factor), LAMBDA smoke :
    emit(smoke, 15 * scale, 800, factor)))

\* ParticleSystem.createHitSpark
createHitSpark(runs, factor) == emit(runs, 100, 300, factor)

ParticleAged(run, deltaTime) == [run EXCEPT !.age = @ + deltaTime]
ParticleLives(run) == run.age < run.lifetime

\* ParticleSystem.update
ParticleSystemUpdate(runs, deltaTime) ==
    SelectSeq([i \in 1..Len(runs) |-> ParticleAged(runs[i], deltaTime)], ParticleLives)

\* -------------------------------------------------------------------- PowerUp
PowerUpTypes == {"shield", "freeze", "xray"}

\* PowerUp.getDurationForType
getDurationForType(type) ==
    CASE type = "shield" -> 10000
      [] type = "freeze" -> 5000
      [] type = "xray" -> 15000
      [] OTHER -> 10000

PowerUpLifetime == 30000

\* PowerUp.constructor
NewPowerUp(position, type) ==
    [position |-> position, type |-> type, collisionRadius |-> 150, collected |-> FALSE,
     lifetime |-> PowerUpLifetime, age |-> 0, duration |-> getDurationForType(type)]

\* An update that ages a power-up and never expires it
PowerUpAged(pu, deltaTime) ==
    IF pu.collected THEN pu ELSE [pu EXCEPT !.age = @ + deltaTime]

\* PowerUp.update
PowerUpUpdate(pu, deltaTime) ==
    IF pu.collected THEN pu
    ELSE IF pu.age + deltaTime >= pu.lifetime
         THEN [pu EXCEPT !.age = @ + deltaTime, !.collected = TRUE]
         ELSE [pu EXCEPT !.age = @ + deltaTime]

\* PowerUp.checkCollection: TRUE when the player picks the power-up up
checkCollection(pu, player) ==
    LET dx == pu.position[1] - player.position[1]
        dz == pu.position[3] - player.position[3]
        reach == pu.collisionRadius + player.collisionRadius
    IN ~pu.collected /\ dx * dx + dz * dz < reach * reach

\* ------------------------------------------------------------- PowerUpManager
PowerUpSpawnInterval == 20000
maxPowerups == 3

\* PowerUpManager.constructor; a type absent from activePowerups has time 0
NewPowerUpManager ==
    [powerups |-> <<>>, activePowerups |-> [t \in PowerUpTypes |-> 0], spawnTimer |-> 0]

\* PowerUpManager.spawn
PowerUpSpawn(pm, avoidPositions, obstacles, draw) ==
    IF Len(pm.powerups) >= maxPowerups THEN pm
    ELSE [pm EXCEPT !.powerups =
            Append(@, NewPowerUp(getRandomSpawnPosition(draw, avoidPositions, 1000, obstacles),
                                 draw.type))]

\* PowerUpManager.activate
activate(pm, type, duration) == [pm EXCEPT !.activePowerups[type] = duration]

\* PowerUpManager.isActive
isActive(pm, type) == pm.activePowerups[type] > 0

\* PowerUpManager.update, lines 480-494: the loop from the last power-up to the first
RECURSIVE PowerUpLoop(_, _, _, _)
PowerUpLoop(pm, i, deltaTime, player) ==
    IF i < 1 THEN pm
    ELSE Let(PowerUpUpdate(pm.powerups[i], deltaTime), LAMBDA pu :
         Let(checkCollection(pu, player), LAMBDA taken :
         PowerUpLoop(
             [(IF taken THEN activate(pm, pu.type, pu.duration) ELSE pm)
                 EXCEPT !.powerups = IF taken \/ pu.collected THEN RemoveAt(@, i)
                                      ELSE [@ EXCEPT ![i] = pu]],
             i - 1, deltaTime, player)))

\* PowerUpManager.update
PowerUpManagerUpdate(pm, deltaTime, player, obstacles, draw) ==
    Let(IF pm.spawnTimer + deltaTime >= PowerUpSpawnInterval /\ Len(pm.powerups) < maxPowerups
        THEN [PowerUpSpawn(pm, <<player.position>>, obstacles, draw) EXCEPT !.spawnTimer = 0]
        ELSE [pm EXCEPT !.spawnTimer = pm.spawnTimer + deltaTime], LAMBDA pm1 :
    Let(PowerUpLoop(pm1, Len(pm1.powerups), deltaTime, player), LAMBDA pm2 :
    [pm2 EXCEPT !.activePowerups =
        [t \in PowerUpTypes |-> IF pm2.activePowerups[t] = 0 THEN 0
                                ELSE Max(0, pm2.activePowerups[t] - deltaTime)]]))

\* PowerUpManager.applyEffects
applyEffects(pm, player) ==
    IF isActive(pm, "shield")
    THEN [player EXCEPT !.invulnerable = TRUE, !.invulnerabilityTime = pm.activePowerups["shield"]]
    ELSE player

\* A manager that never reports the freeze effect
NeverFrozen(pm) == FALSE

\* PowerUpManager.isFreezeActive
isFreezeActive(pm) == isActive(pm, "freeze")

\* PowerUpManager.clear
PowerUpManagerClear(pm) ==
    [pm EXCEPT !.powerups = <<>>, !.activePowerups = [t \in PowerUpTypes |-> 0],
               !.spawnTimer = 0]

\* ------------------------------------------------------------ Terrain data
\* One outcome of Terrain.generate: the variance, scale, position, type and
\* size draws follow fixed patterns inside the ranges of the code.
MountainCount == 20
ObstacleCount == 15

\* Terrain.generateMountains, the mountain of loop index i
MountainAt(i) ==
    LET angle == RDiv(i * TWO_PI, MountainCount)
        variance == IF i = 0 THEN -1500 ELSE (((i * 7) % 4) - 1) * 500
        distance == (TerrainSize \div 2 - 1000) + variance
    IN [position |-> <<RDiv(Cos(angle) * distance, 1000), 0, RDiv(Sin(angle) * distance, 1000)>>,
        scale |-> 800 + ((i * 3) % 8) * 100]

Mountains == [k \in 1..MountainCount |-> MountainAt(k - 1)]

\* Terrain.generateObstacles, the obstacle of loop index i
ObstacleAt(i) ==
    LET baseSize == 300 + ((i * 5) % 4) * 100
        type == IF i % 2 = 0 THEN "cube" ELSE "pyramid"
    IN [id |-> "obstacle_" \o ToString(i),
        position |-> <<(((i * 37) % 17) - 8) * 1000, 0, (((i * 53) % 17) - 8) * 1000>>,
        type |-> type,
        size |-> <<baseSize, IF type = "cube" THEN 350 ELSE RDiv(baseSize * 3, 2), baseSize>>,
        collisionRadius |-> RDiv(baseSize * 7, 10)]

Obstacles == [k \in 1..ObstacleCount |-> ObstacleAt(k - 1)]

\* ---------------------------------------------------------------------- Game
VARIABLES
    state,           \* Game.state: "menu", "playing", "paused", "game_over", "level_complete"
    score,           \* Game.score
    lives,           \* Game.lives
    level,           \* Game.level
    difficulty,      \* Game.difficulty
    secondPlayer,    \* Game.config.enableSecondPlayer
    player,          \* Game.player
    player2,         \* Game.player2: <<>> for null, else <<the Player2>>
    enemyManager,    \* Game.enemyManager
    projectiles,     \* Game.projectileManager.projectiles
    particles,       \* Game.particleSystem.particles, as runs
    powerupManager,  \* Game.powerupManager
    timers,          \* the pending setTimeout callbacks of the respawn sequence
    lastTime,        \* Game.lastTime, the timestamp of the last animation frame
    frameDelta,      \* Game.deltaTime, in ms
    frame,           \* number of animation frames so far
    inputs,          \* number of input events so far
    lastOp,          \* the handler that ran last, with the key of a key event
    hits,            \* the hits processed by the last update, in order
    shooters,        \* the ids of the enemies that fired in the last update
    created,         \* number of projectiles given to createProjectile so far
    returned         \* the value returned by the last direct call of a method

vars == <<state, score, lives, level, difficulty, secondPlayer, player, player2,
          enemyManager, projectiles, particles, powerupManager, timers,
          lastTime, frameDelta, frame, inputs, lastOp, hits, shooters, created, returned>>

\* Game.constructor, difficultySettings
DifficultySettings ==
    [easy |-> [enemyMaxSpeed |-> 40, enemyShootCooldown |-> 4000, enemyPlayerBias |-> 400,
               startingLives |-> 10, ufoSpawnLevel |-> 1],
     medium |-> [enemyMaxSpeed |-> 50, enemyShootCooldown |-> 5000, enemyPlayerBias |-> 400,
                 startingLives |-> 5, ufoSpawnLevel |-> 1],
     hard |-> [enemyMaxSpeed |-> 80, enemyShootCooldown |-> 3000, enemyPlayerBias |-> 700,
               startingLives |-> 3, ufoSpawnLevel |-> 1]]

Difficulties == {"easy", "medium", "hard"}

\* main bootstrap: new Game({useBallistics: false, ...})
UseBallistics == FALSE
ProjectileType == IF UseBallistics THEN "ballistic" ELSE "normal"

\* The squared distance on the ground between two positions
Dist2(a, b) == (a[1] - b[1]) * (a[1] - b[1]) + (a[3] - b[3]) * (a[3] - b[3])

\* Game.playerShoot: the projectile list after the call
playerShoot(list, p) ==
    IF ~p.alive \/ ~p.canShoot THEN list
    ELSE IF hasActiveProjectile(list, p.id) THEN list
    ELSE fireFromEntity(list, p, PlayerShootDirection(p), [speed |-> 600, type |-> ProjectileType])

\* The search of playerShootGuided keeping the first live enemy it meets
RECURSIVE FirstEnemy(_, _, _, _, _)
FirstEnemy(p, enemies, i, bestId, bestDist) ==
    IF i > Len(enemies) THEN [id |-> bestId, dist |-> bestDist]
    ELSE IF enemies[i].alive /\ bestDist < 0
         THEN FirstEnemy(p, enemies, i + 1, enemies[i].id, Dist2(p.position, enemies[i].position))
         ELSE FirstEnemy(p, enemies, i + 1, bestId, bestDist)

\* Game.playerShootGuided, lines 345-371: the id of the targeted enemy, NULL for none
RECURSIVE NearestEnemy(_, _, _, _, _)
NearestEnemy(p, enemies, i, bestId, bestDist) ==
    IF i > Len(enemies) THEN [id |-> bestId, dist |-> bestDist]
    ELSE IF enemies[i].alive /\ (bestDist < 0 \/ Dist2(p.position, enemies[i].position) < bestDist)
         THEN NearestEnemy(p, enemies, i + 1, enemies[i].id, Dist2(p.position, enemies[i].position))
         ELSE NearestEnemy(p, enemies, i + 1, bestId, bestDist)

GuidedTarget(p, em) ==
    Let(NearestEnemy(p, em.enemies, 1, NULL, -1), LAMBDA nearest :
    IF UfoAlive(em)
       /\ (nearest.dist < 0 \/ Dist2(p.position, em.ufo[1].position) < nearest.dist)
    THEN em.ufo[1].id ELSE nearest.id)

GuidedOwner(p) == p.id \o "_guided"

\* Game.playerShootGuided: the projectile list after the call
playerShootGuided(list, p, em) ==
    IF ~p.alive \/ ~p.canShoot THEN list
    ELSE IF hasActiveProjectile(list, GuidedOwner(p)) THEN list
    ELSE Let(GuidedTarget(p, em), LAMBDA nearestEnemy :
         Let(angleToVector(p.rotation), LAMBDA forward :
         IF nearestEnemy = NULL THEN list
         ELSE createProjectile(list,
               [ownerId |-> GuidedOwner(p),
                position |-> <<p.position[1] + RDiv(forward[1] * 250, 1000),
                               p.position[2] + 150,
                               p.position[3] + RDiv(forward[3] * 250, 1000)>>,
                velocity |-> <<RDiv(forward[1] * 250, 1000), 0, RDiv(forward[3] * 250, 1000)>>,
                speed |-> 250, type |-> "guided", target |-> nearestEnemy,
                turnRate |-> 300, lifetime |-> 8000])))

\* Enemy.getShootDirection of a tank or of the UFO
ShootDirection(enemy, p) ==
    IF enemy.kind = "ufo" THEN UFOShootDirection(enemy, p) ELSE TankShootDirection(enemy, p)

\* Game.enemyShoot: the projectile list after the call
enemyShoot(list, enemy, p) ==
    Let(ShootDirection(enemy, p), LAMBDA direction :
    createProjectile(list,
          [ownerId |-> enemy.id,
           position |-> <<enemy.position[1] + RDiv(direction[1] * 250, 1000),
                          enemy.position[2] + 120,
                          enemy.position[3] + RDiv(direction[3] * 250, 1000)>>,
           velocity |-> <<RDiv(direction[1] * 350, 1000), RDiv(direction[2] * 350, 1000),
                          RDiv(direction[3] * 350, 1000)>>,
           type |-> ProjectileType]))

\* Game.update, lines 597-601: every shooter fires, in order
RECURSIVE ShootAll(_, _, _, _)
ShootAll(list, shooterList, i, p) ==
    IF i > Len(shooterList) THEN list
    ELSE ShootAll(enemyShoot(list, shooterList[i], p), shooterList, i + 1, p)

\* The fields of the game as one record, and the record an update works on
Game ==
    [state |-> state, score |-> score, lives |-> lives, level |-> level,
     player |-> player, player2 |-> player2, enemyManager |-> enemyManager,
     projectiles |-> projectiles, particles |-> particles,
     powerupManager |-> powerupManager, timers |-> timers,
     hits |-> <<>>, shooters |-> <<>>, created |-> created]

RespawnDelay == 1000

\* Game.update, lines 562-573: the first player moves, against the enemies as
\* the previous update left them
PlayerPhase(g, deltaTime, rnd) ==
    IF g.player.alive
    THEN [g EXCEPT !.player = PlayerUpdate(g.player, deltaTime, Obstacles, Mountains,
                                           getAllEntities(g.enemyManager), rnd.push)]
    ELSE g

\* Game.update, lines 575-584: the second player
Player2Phase(g, deltaTime, rnd) ==
    IF Len(g.player2) = 1 /\ g.player2[1].alive
    THEN [g EXCEPT !.player2 = <<PlayerUpdate(g.player2[1], deltaTime, Obstacles, Mountains,
                                              getAllEntities(g.enemyManager), rnd.push)>>]
    ELSE g

UfoRollChance == 10

\* Game.update, lines 586-612: enemies move and decide, the shooters fire, a
\* UFO may appear; all of it skipped while the freeze power-up is active
EnemyPhase(g, deltaTime, rnd) ==
    IF isFreezeActive(g.powerupManager) THEN g
    ELSE Let(EnemyManagerUpdate(g.enemyManager, deltaTime, g.player, Obstacles,
                                Mountains, g.level, rnd), LAMBDA em1 :
         Let(ShootersOf(em1), LAMBDA firing :
         Let(ShootersCleared(em1), LAMBDA em2 :
         [g EXCEPT !.enemyManager =
                       IF g.level >= em2.difficultySettings.ufoSpawnLevel /\ ~UfoAlive(em2)
                          /\ rnd.ufoRoll < UfoRollChance
                       THEN spawnUFO(em2, rnd.ufo) ELSE em2,
                   !.projectiles = ShootAll(g.projectiles, firing, 1, g.player),
                   !.shooters = SeqMap(LAMBDA e : e.id, firing),
                   !.created = @ + Len(firing)])))

\* Game.update, lines 614-626: the projectiles move and register their hits
ProjectilePhase(g, deltaTime) ==
    Let(ProjectileManagerUpdate(g.projectiles, deltaTime, Obstacles,
                                <<g.player>> \o g.player2 \o getAllEntities(g.enemyManager),
                                g.enemyManager.enemies \o g.enemyManager.ufo), LAMBDA r :
    [g EXCEPT !.projectiles = r.projectiles, !.hits = r.hits])

\* Game.update, lines 633-656: a hit on a player
HitPlayer(g, hit, factor) ==
    Let(PlayerTakeDamage(IF hit.target = "player" THEN g.player ELSE g.player2[1]), LAMBDA r :
    Let(IF hit.target = "player" THEN [g EXCEPT !.player = r.entity]
        ELSE [g EXCEPT !.player2 = <<r.entity>>], LAMBDA g1 :
    IF ~r.killed THEN g1
    ELSE [g1 EXCEPT !.particles = createExplosion(@, 15, factor),
                    !.lives = @ - 1,
                    !.state = IF g.lives - 1 <= 0 THEN "game_over" ELSE @,
                    !.timers = IF g.lives - 1 <= 0 THEN @
                               ELSE Append(@, [stage |-> 1, remaining |-> RespawnDelay,
                                               target |-> hit.target])]))

\* Game.update, lines 657-669: a hit on an enemy tank or on the UFO
HitEnemy(g, hit, factor) ==
    Let(Len(g.enemyManager.ufo) = 1 /\ g.enemyManager.ufo[1].id = hit.target, LAMBDA isUfo :
    Let(IF isUfo THEN 1
        ELSE CHOOSE i \in 1..Len(g.enemyManager.enemies) :
                g.enemyManager.enemies[i].id = hit.target, LAMBDA k :
    Let(IF isUfo THEN UFOTakeDamage(g.enemyManager.ufo[1])
        ELSE TankTakeDamage(g.enemyManager.enemies[k]), LAMBDA r :
    Let(IF isUfo THEN [g EXCEPT !.enemyManager.ufo = <<r.entity>>]
        ELSE [g EXCEPT !.enemyManager.enemies[k] = r.entity], LAMBDA g1 :
    IF ~r.killed THEN g1
    ELSE [g1 EXCEPT !.particles = createExplosion(@, 15, factor),
                    !.score = @ + r.entity.points]))))

\* The value takeDamage returns for the target of a hit
TakesDamage(g, hit) ==
    IF hit.target = "player" THEN PlayerTakeDamage(g.player).killed
    ELSE IF hit.target = "player2" THEN PlayerTakeDamage(g.player2[1]).killed
    ELSE IF Len(g.enemyManager.ufo) = 1 /\ g.enemyManager.ufo[1].id = hit.target
         THEN UFOTakeDamage(g.enemyManager.ufo[1]).killed
         ELSE \E i \in 1..Len(g.enemyManager.enemies) :
                 /\ g.enemyManager.enemies[i].id = hit.target
                 /\ TankTakeDamage(g.enemyManager.enemies[i]).killed

\* The alive flag of the target of a hit as the hit is processed
TargetAlive(g, hit) ==
    IF hit.target = "player" THEN g.player.alive
    ELSE IF hit.target = "player2" THEN g.player2[1].alive
    ELSE IF Len(g.enemyManager.ufo) = 1 /\ g.enemyManager.ufo[1].id = hit.target
         THEN g.enemyManager.ufo[1].alive
         ELSE \E i \in 1..Len(g.enemyManager.enemies) :
                 g.enemyManager.enemies[i].id = hit.target /\ g.enemyManager.enemies[i].alive

\* Game.update, lines 628-674: the hits are processed in order.  Each processed
\* hit is kept with the alive flag of its target just before it was processed.
RECURSIVE HitPhaseFrom(_, _, _, _)
HitPhaseFrom(g, pending, done, factor) ==
    IF pending = <<>> THEN [g EXCEPT !.hits = done]
    ELSE Let(Head(pending), LAMBDA hit :
         HitPhaseFrom(
             IF hit.type = "entity"
             THEN IF hit.target \in {"player", "player2"}
                  THEN HitPlayer(g, hit, factor)
                  ELSE HitEnemy(g, hit, factor)
             ELSE [g EXCEPT !.particles = createHitSpark(@, factor)],
             Tail(pending),
             Append(done, [type |-> hit.type, target |-> hit.target, ownerId |-> hit.ownerId,
                           targetAlive |-> hit.targetAlive,
                           aliveWhenProcessed |-> hit.type = "entity" /\ TargetAlive(g, hit),
                           killed |-> hit.type = "entity" /\ TakesDamage(g, hit)]),
             factor))

HitPhase(g, rnd) == HitPhaseFrom(g, g.hits, <<>>, rnd.factor)

\* Game.update, lines 675-684: dead enemies leave, an empty field completes the level
CleanupPhase(g) ==
    Let(removeDeadEnemies(g.enemyManager), LAMBDA em :
    [g EXCEPT !.enemyManager = em,
              !.state = IF getAliveCount(em) = 0 THEN "level_complete" ELSE @])

\* Game.update, lines 686-693: power-ups
PowerupPhase(g, deltaTime, rnd) ==
    Let(PowerUpManagerUpdate(g.powerupManager, deltaTime, g.player, Obstacles, rnd.powerup),
        LAMBDA pm :
    [g EXCEPT !.powerupManager = pm, !.player = applyEffects(pm, g.player)])

\* Game.update, lines 695-696: particles
ParticlePhase(g, deltaTime) ==
    [g EXCEPT !.particles = ParticleSystemUpdate(@, deltaTime)]

\* An update that runs the enemies before the players
GameUpdateEnemiesFirst(g, deltaTime, rnd) ==
    ParticlePhase(
        PowerupPhase(
            CleanupPhase(
                HitPhase(
                    ProjectilePhase(
                        Player2Phase(
                            PlayerPhase(
                                EnemyPhase(g, deltaTime, rnd),
                                deltaTime, rnd),
                            deltaTime, rnd),
                        deltaTime),
                    rnd)),
            deltaTime, rnd),
        deltaTime)

\* Game.update for a game in state PLAYING
GameUpdate(g, deltaTime, rnd) ==
    ParticlePhase(
        PowerupPhase(
            CleanupPhase(
                HitPhase(
                    ProjectilePhase(
                        EnemyPhase(
                            Player2Phase(
                                PlayerPhase(g, deltaTime, rnd),
                                deltaTime, rnd),
                            deltaTime, rnd),
                        deltaTime),
                    rnd)),
            deltaTime, rnd),
        deltaTime)

\* ---------------------------------------------------------------- Bounds
MaxTicks == 15          \* animation frames in a run
MaxInputs == 1          \* input events in a run
InputFrames == 1        \* input events and alternative draws occur in the first frames
MaxLevel == 7           \* levels reached by nextLevel

\* ------------------------------------------------------- Draws of Math.random
\* One draw record stands for the values Math.random returns during one
\* handler.  Positions are taken inside the ranges of the code.
EdgeFirst == <<<<-8500, 0, -3000>>, <<3000, 0, -8500>>, <<8500, 0, -2000>>,
               <<-4000, 0, 8500>>, <<-8500, 0, 5000>>, <<-6000, 0, -8500>>,
               <<8500, 0, 6000>>, <<6500, 0, -8500>>, <<-8500, 0, -7500>>>>
EdgeRest == <<<<-8500, 0, 2000>>, <<-1000, 0, -8500>>, <<8500, 0, -6000>>,
              <<-8500, 0, -5500>>, <<1000, 0, -8500>>, <<8500, 0, 1000>>,
              <<-3500, 0, -8500>>, <<8500, 0, 3500>>, <<-8500, 0, 7500>>>>
SpawnRotations == <<0, 400, 157, 600, 250, 314, 90, 500, 30>>

SpawnDrawAt(i) ==
    [first |-> EdgeFirst[i], rest |-> EdgeRest[i], rotation |-> SpawnRotations[i],
     moveDuration |-> 2000 + 300 * i, shootTimer |-> 4000 + 300 * i]

SpawnDraws == [i \in 1..9 |-> SpawnDrawAt(i)]

RndA ==
    [push |-> <<30, -20>>, moveDuration |-> 3000, biasRoll |-> 100, noise |-> 20,
     randomDir |-> 500, jitter |-> 600, turn |-> 100,
     spawn |-> SpawnDraws, ufoRoll |-> 500,
     ufo |-> [position |-> <<2000, 2000, -3000>>, shootTimer |-> 5000,
              moveAngle |-> 100, bobPhase |-> 200],
     coin |-> 300,
     respawn |-> [first |-> <<0, 0, 0>>, rest |-> <<-2000, 0, 1000>>],
     powerup |-> [first |-> <<3000, 0, 3000>>, rest |-> <<-5000, 0, 2000>>, type |-> "shield"],
     factor |-> 800]

RndB ==
    [push |-> <<-40, 10>>, moveDuration |-> 2000, biasRoll |-> 950, noise |-> -40,
     randomDir |-> 120, jitter |-> 0, turn |-> 300,
     spawn |-> SpawnDraws, ufoRoll |-> 5,
     ufo |-> [position |-> <<-1000, 2000, 1500>>, shootTimer |-> 7000,
              moveAngle |-> 400, bobPhase |-> 0],
     coin |-> 700,
     respawn |-> [first |-> <<0, 0, 2800>>, rest |-> <<1500, 0, -1500>>],
     powerup |-> [first |-> <<0, 0, 2800>>, rest |-> <<-2500, 0, -2500>>, type |-> "freeze"],
     factor |-> 500]

\* The draws a handler can see: any record early in a run, the first one later
Draws == IF frame < InputFrames THEN {RndA, RndB} ELSE {RndA}

\* ------------------------------------------------------------------ Handlers
Ghosts(op) ==
    /\ lastOp' = op
    /\ UNCHANGED <<lastTime, frameDelta, frame, hits, shooters, returned>>

\* Game.startGame, with d the value of Game.difficulty it reads
StartGame(op, d, rnd) ==
    \E p \in {[PlayerRespawn(player, getRandomSpawnPosition(rnd.respawn, <<>>, 2000, Obstacles))
                  EXCEPT !.rotation = 0]} :
       /\ difficulty' = d
       /\ state' = "playing"
       /\ score' = 0
       /\ lives' = DifficultySettings[d].startingLives
       /\ level' = 1
       /\ player' = p
       /\ player2' = IF secondPlayer
                     THEN <<[PlayerRespawn(IF player2 = <<>>
                                           THEN NewPlayer("player2", <<500, 0, 0>>)
                                           ELSE player2[1],
                                           <<500, 0, 0>>) EXCEPT !.rotation = 0]>>
                     ELSE <<>>
       /\ enemyManager' = EnemyManagerReset(setDifficulty(enemyManager, DifficultySettings[d]),
                                            p, 1, 3, rnd.spawn)
       /\ projectiles' = <<>>
       /\ particles' = <<>>
       /\ powerupManager' = PowerUpManagerClear(powerupManager)
       /\ UNCHANGED <<secondPlayer, timers, created>>
       /\ Ghosts(op)

\* Game.nextLevel
NextLevel(op, rnd) ==
    LET em1 == EnemyManagerReset([enemyManager EXCEPT !.maxEnemies = Min(8, 3 + (level + 1))],
                                 player, level + 1, 3 + (level + 1), rnd.spawn)
    IN /\ level < MaxLevel
       /\ level' = level + 1
       /\ state' = "playing"
       /\ enemyManager' = IF level + 1 >= 3 /\ rnd.coin > 500 THEN spawnUFO(em1, rnd.ufo) ELSE em1
       /\ projectiles' = <<>>
       /\ UNCHANGED <<score, lives, difficulty, secondPlayer, player, player2, particles,
                      powerupManager, timers, created>>
       /\ Ghosts(op)

\* Input events occur in the first frames of a run and while the game waits
\* for Enter
InputAllowed ==
    /\ inputs < MaxInputs
    /\ frame < InputFrames \/ state \in {"level_complete", "game_over"}

\* The click handler of a difficulty button of the menu
ClickDifficulty ==
    \E d \in Difficulties, rnd \in Draws :
        /\ InputAllowed
        /\ state = "menu"
        /\ inputs' = inputs + 1
        /\ StartGame("click", d, rnd)

\* The click handler of the two-player button of the menu
ToggleSecondPlayer ==
    /\ InputAllowed
    /\ state = "menu"
    /\ inputs' = inputs + 1
    /\ secondPlayer' = ~secondPlayer
    /\ UNCHANGED <<state, score, lives, level, difficulty, player, player2, enemyManager,
                   projectiles, particles, powerupManager, timers, created>>
    /\ Ghosts("toggle")

KeyCodes == {"Enter", "KeyP", "ArrowUp", "Space", "KeyE", "KeyG"}
KeyUpCodes == {"ArrowUp"}

\* Game.handleKeyDown, lines 208-273: the first player after a key goes down
KeyDownPlayer(p, code) ==
    CASE code = "ArrowUp" -> [p EXCEPT !.input.forward = TRUE]
      [] code = "ArrowDown" -> [p EXCEPT !.input.backward = TRUE]
      [] code = "ArrowLeft" -> [p EXCEPT !.input.left = TRUE]
      [] code = "ArrowRight" -> [p EXCEPT !.input.right = TRUE]
      [] code = "KeyW" -> [p EXCEPT !.input.turretUp = TRUE]
      [] code = "KeyS" -> [p EXCEPT !.input.turretDown = TRUE]
      [] OTHER -> p

\* Game.handleKeyDown, lines 208-273: the second player after a key goes down
KeyDownPlayer2(p, code) ==
    CASE code = "KeyW" -> [p EXCEPT !.input.forward = TRUE]
      [] code = "KeyS" -> [p EXCEPT !.input.backward = TRUE]
      [] code = "KeyA" -> [p EXCEPT !.input.left = TRUE]
      [] code = "KeyD" -> [p EXCEPT !.input.right = TRUE]
      [] OTHER -> p

\* Game.handleKeyDown, lines 208-273: the projectile list after a key goes down
KeyDownProjectiles(code) ==
    CASE code = "Space" -> playerShoot(projectiles, player)
      [] code = "KeyE" -> playerShootGuided(projectiles, player, enemyManager)
      [] code = "KeyG" /\ player2 # <<>> -> playerShoot(projectiles, player2[1])
      [] code = "KeyT" /\ player2 # <<>> -> playerShootGuided(projectiles, player2[1], enemyManager)
      [] OTHER -> projectiles

\* Game.handleKeyDown for a key other than Enter and KeyP
KeyDownPlaying(code) ==
    /\ IF state = "playing"
       THEN /\ player' = KeyDownPlayer(player, code)
            /\ player2' = [i \in 1..Len(player2) |-> KeyDownPlayer2(player2[i], code)]
            /\ projectiles' = KeyDownProjectiles(code)
            /\ created' = created + (IF KeyDownProjectiles(code) # projectiles THEN 1 ELSE 0)
       ELSE UNCHANGED <<player, player2, projectiles, created>>
    /\ UNCHANGED <<state, score, lives, level, difficulty, secondPlayer, enemyManager,
                   particles, powerupManager, timers>>
    /\ Ghosts(code)

\* Game.pause and Game.resume behind KeyP
KeyDownPause ==
    /\ state' = IF state = "playing" THEN "paused"
                ELSE IF state = "paused" THEN "playing" ELSE state
    /\ UNCHANGED <<score, lives, level, difficulty, secondPlayer, player, player2,
                   enemyManager, projectiles, particles, powerupManager, timers, created>>
    /\ Ghosts("KeyP")

\* Game.handleKeyDown
KeyDown ==
    \E code \in KeyCodes, rnd \in Draws :
        /\ InputAllowed
        /\ inputs' = inputs + 1
        /\ CASE code = "Enter" /\ state \in {"menu", "game_over"} ->
                    StartGame("Enter", difficulty, rnd)
             [] code = "Enter" /\ state = "level_complete" -> NextLevel("Enter", rnd)
             [] code = "Enter" /\ state \in {"playing", "paused"} ->
                    UNCHANGED <<state, score, lives, level, difficulty, secondPlayer, player,
                                player2, enemyManager, projectiles, particles, powerupManager,
                                timers, created>> /\ Ghosts("Enter")
             [] code = "KeyP" -> KeyDownPause
             [] OTHER -> KeyDownPlaying(code)

\* Game.handleKeyUp, the first player
KeyUpPlayer(p, code) ==
    CASE code = "ArrowUp" -> [p EXCEPT !.input.forward = FALSE]
      [] code = "ArrowDown" -> [p EXCEPT !.input.backward = FALSE]
      [] code = "ArrowLeft" -> [p EXCEPT !.input.left = FALSE]
      [] code = "ArrowRight" -> [p EXCEPT !.input.right = FALSE]
      [] code = "KeyW" -> [p EXCEPT !.input.turretUp = FALSE]
      [] code = "KeyS" -> [p EXCEPT !.input.turretDown = FALSE]
      [] OTHER -> p

\* Game.handleKeyUp, the second player
KeyUpPlayer2(p, code) ==
    CASE code = "KeyW" -> [p EXCEPT !.input.forward = FALSE]
      [] code = "KeyS" -> [p EXCEPT !.input.backward = FALSE]
      [] code = "KeyA" -> [p EXCEPT !.input.left = FALSE]
      [] code = "KeyD" -> [p EXCEPT !.input.right = FALSE]
      [] OTHER -> p

\* Game.handleKeyUp
KeyUp ==
    \E code \in KeyUpCodes :
        /\ InputAllowed
        /\ inputs' = inputs + 1
        /\ player' = KeyUpPlayer(player, code)
        /\ player2' = [i \in 1..Len(player2) |-> KeyUpPlayer2(player2[i], code)]
        /\ UNCHANGED <<state, score, lives, level, difficulty, secondPlayer, enemyManager,
                       projectiles, particles, powerupManager, timers, created>>
        /\ Ghosts("up_" \o code)

\* ------------------------------------------------------------------- Timers
TimerDue(i) == timers[i].remaining <= 0
FirstDue == CHOOSE i \in 1..Len(timers) : TimerDue(i) /\ \A j \in 1..(i - 1) : ~TimerDue(j)
AnyDue == \E i \in 1..Len(timers) : TimerDue(i)

\* Game.update, lines 647-653: the outer setTimeout callback starts the inner one
RespawnTimeoutOuter ==
    /\ AnyDue
    /\ timers[FirstDue].stage = 1
    /\ timers' = Append(RemoveAt(timers, FirstDue),
                        [stage |-> 2, remaining |-> RespawnDelay,
                         target |-> timers[FirstDue].target])
    /\ UNCHANGED <<state, score, lives, level, difficulty, secondPlayer, player, player2,
                   enemyManager, projectiles, particles, powerupManager, inputs, created>>
    /\ Ghosts("timeout")

\* Game.update, lines 648-652: the inner setTimeout callback respawns its target
RespawnTimeoutInner ==
    \E rnd \in Draws :
        /\ AnyDue
        /\ timers[FirstDue].stage = 2
        /\ timers' = RemoveAt(timers, FirstDue)
        /\ LET spawnPos == getRandomSpawnPosition(rnd.respawn, <<>>, 2000, Obstacles)
           IN IF timers[FirstDue].target = "player"
              THEN player' = PlayerRespawn(player, spawnPos) /\ UNCHANGED player2
              ELSE /\ player2' = [i \in 1..Len(player2) |-> PlayerRespawn(player2[i], spawnPos)]
                   /\ UNCHANGED player
        /\ UNCHANGED <<state, score, lives, level, difficulty, secondPlayer, enemyManager,
                       projectiles, particles, powerupManager, inputs, created>>
        /\ Ghosts("respawn")

\* ------------------------------------------------------------------- Update
FrameTimes == {100}
MaxDeltaTime == 100

TimerAged(t, elapsed) == [t EXCEPT !.remaining = @ - elapsed]

\* A frame time that is not capped
FrameDeltaUncapped(time, last) == time - last

\* Game.update, line 550: the frame time in ms, at most 100
FrameDelta(time, last) == Min(time - last, MaxDeltaTime)

\* The pending timers after `elapsed` milliseconds
TimersAged(g, elapsed) ==
    [g EXCEPT !.timers = [i \in 1..Len(g.timers) |-> TimerAged(g.timers[i], elapsed)]]

\* An update that runs the simulation in every state
GameTickAlways(g, dt, rnd) == GameUpdate(g, dt, rnd)

\* Game.update, lines 553-705: nothing happens unless the game is in state PLAYING
GameTick(g, dt, rnd) ==
    IF g.state # "playing" THEN g ELSE GameUpdate(g, dt, rnd)

\* Game.update(time), called by the animation frame `elapsed` milliseconds
\* after the previous one; the pending timers have run down by as much.
UpdateAt(elapsed, rnd) ==
    \E dt \in {FrameDelta(lastTime + elapsed, lastTime)} :
    \E g \in {GameTick(TimersAged(Game, elapsed), dt, rnd)} :
       /\ frame < MaxTicks
       /\ ~AnyDue
       /\ frame' = frame + 1
       /\ frameDelta' = dt
       /\ lastTime' = lastTime + elapsed
       /\ state' = g.state
       /\ score' = g.score
       /\ lives' = g.lives
       /\ player' = g.player
       /\ player2' = g.player2
       /\ enemyManager' = g.enemyManager
       /\ projectiles' = g.projectiles
       /\ particles' = g.particles
       /\ powerupManager' = g.powerupManager
       /\ timers' = g.timers
       /\ hits' = g.hits
       /\ shooters' = g.shooters
       /\ created' = g.created
       /\ lastOp' = "update"
       /\ UNCHANGED <<level, difficulty, secondPlayer, inputs, returned>>

\* Game.update in the animation loop of a game at a steady frame rate
Update == \E elapsed \in FrameTimes, rnd \in Draws : UpdateAt(elapsed, rnd)

\* ---------------------------------------------------------------- Scenarios
\* The game right after Game.init, and situations of a game in progress.  A
\* tank first fires 4 to 7 seconds after it appears and a power-up appears
\* after 20 seconds, so runs of MaxTicks frames start from such situations.

\* A tank as spawnEnemy configures it for a difficulty and a level, later in its life
ScenarioTank(id, d, lvl, position, rotation, shootTimer, st) ==
    LET ds == DifficultySettings[d]
        tank == NewEnemyTank(id,
                    [position |-> position, rotation |-> rotation,
                     maxSpeed |-> ds.enemyMaxSpeed + lvl * 5,
                     shootCooldown |-> Max(2000, ds.enemyShootCooldown - lvl * 200),
                     playerBias |-> Min(850, ds.enemyPlayerBias + lvl * 50),
                     moveDuration |-> 4000, shootTimer |-> shootTimer])
    IN [tank EXCEPT !.state = st]

\* The game after Game.init
MenuGame ==
    [state |-> "menu", score |-> 0, lives |-> 10, level |-> 1, difficulty |-> "medium",
     secondPlayer |-> FALSE, player |-> NewPlayer("player", <<0, 0, 0>>), player2 |-> <<>>,
     enemyManager |-> NewEnemyManager, projectiles |-> <<>>, particles |-> <<>>,
     powerupManager |-> NewPowerUpManager, timers |-> <<>>]

\* The tanks nextLevel and startGame placed on the levels before lvl
RECURSIVE ClearedTanks(_)
ClearedTanks(lvl) ==
    IF lvl <= 1 THEN 0
    ELSE (IF lvl = 2 THEN 3 ELSE 3 + (lvl - 1)) + ClearedTanks(lvl - 1)

\* A game in progress at a difficulty and a level with the given enemies
PlayingGame(d, lvl, lifeCount, enemies) ==
    [MenuGame EXCEPT
        !.state = "playing", !.lives = lifeCount, !.level = lvl, !.difficulty = d,
        !.score = 100 * ClearedTanks(lvl),
        !.enemyManager = [setDifficulty(NewEnemyManager, DifficultySettings[d]) EXCEPT
                             !.enemies = enemies,
                             !.maxEnemies = IF lvl = 1 THEN DefaultMaxEnemies ELSE Min(8, 3 + lvl),
                             !.nextId = 20]]

\* A tank at level 5 of a hard game has the player in its sights 45 units away
Duel ==
    PlayingGame("hard", 5, 3,
        <<ScenarioTank("enemy_11", "hard", 5, <<-4500, 0, 0>>, 157, 100, "pursue")>>)

\* Two tanks at different distances are about to fire at the player
Crossfire ==
    PlayingGame("medium", 1, 2,
        <<ScenarioTank("enemy_2", "medium", 1, <<-1000, 0, 0>>, 157, 100, "pursue"),
          ScenarioTank("enemy_3", "medium", 1, <<0, 0, -1700>>, 0, 100, "pursue")>>)

\* A tank that has fired stands beside the player
Beside ==
    PlayingGame("medium", 1, 5,
        <<ScenarioTank("enemy_1", "medium", 1, <<450, 0, 0>>, -157, 3000, "shoot")>>)

\* The player was destroyed; the inner respawn timer has 200 ms to run and a
\* shell fired at the player is still in flight
AwaitingRespawn ==
    [PlayingGame("medium", 1, 4,
        <<ScenarioTank("enemy_1", "medium", 1, <<-6000, 0, 0>>, 157, 3500, "wander")>>)
     EXCEPT !.player.alive = FALSE,
            !.timers = <<[stage |-> 2, remaining |-> 200, target |-> "player"]>>,
            !.projectiles = <<NewProjectile([ownerId |-> "enemy_1",
                                             position |-> <<-1800, 190, 0>>,
                                             velocity |-> <<350, 6, 0>>,
                                             rotation |-> 157, age |-> 1200])>>]

\* The shell of the player is about to hit the last tank of level 5
LastEnemy ==
    [PlayingGame("hard", 5, 3,
        <<ScenarioTank("enemy_14", "hard", 5, <<0, 0, 1500>>, 314, 1500, "shoot")>>)
     EXCEPT !.projectiles = <<NewProjectile([ownerId |-> "player",
                                             position |-> <<0, 120, 1000>>,
                                             velocity |-> <<0, 0, 600>>,
                                             speed |-> 600, age |-> 200])>>]

\* Two players, a UFO that has been up for ten seconds, three power-ups on
\* the field, one of them a shield next to the first player; the next enemy
\* is due
Crowded ==
    [PlayingGame("medium", 2, 5,
        <<ScenarioTank("enemy_5", "medium", 2, <<-1000, 0, 0>>, 157, 100, "pursue")>>)
     EXCEPT !.secondPlayer = TRUE,
            !.player2 = <<NewPlayer("player2", <<500, 0, -1000>>)>>,
            !.enemyManager.spawnTimer = 4900,
            !.enemyManager.ufo =
                <<[NewUFO("ufo_4", [position |-> <<2000, 1200, -3000>>, shootTimer |-> 3000,
                                    moveAngle |-> 200, bobPhase |-> 0])
                   EXCEPT !.rotation = 312]>>,
            !.powerupManager =
                [NewPowerUpManager EXCEPT
                    !.spawnTimer = 19900,
                    !.powerups = <<[NewPowerUp(<<300, 0, 0>>, "shield") EXCEPT !.age = 4000],
                                   [NewPowerUp(<<-5000, 0, 5000>>, "freeze") EXCEPT !.age = 29900],
                                   [NewPowerUp(<<6000, 0, -6000>>, "xray") EXCEPT !.age = 12000]>>]]

\* A mountain stands between the player and a tank that is ready to fire
Blocked ==
    [PlayingGame("medium", 1, 5,
        <<ScenarioTank("enemy_3", "medium", 1, <<7500, 0, -1200>>, 0, 100, "pursue")>>)
     EXCEPT !.player.position = <<7500, 0, 1200>>]

\* Two players at level 2: each has a shell and a guided missile about to hit
\* a tank, and two enemy shells are about to hit the players; the enemy list is
\* full and the next enemy is due
Barrage ==
    [PlayingGame("medium", 2, 5,
        <<ScenarioTank("enemy_9", "medium", 2, <<0, 0, 1700>>, 314, 2500, "shoot"),
          ScenarioTank("enemy_10", "medium", 2, <<-2000, 0, 1000>>, 157, 3000, "shoot"),
          ScenarioTank("enemy_15", "medium", 2, <<1500, 0, 1700>>, 314, 3500, "shoot"),
          ScenarioTank("enemy_12", "medium", 2, <<3000, 0, -1000>>, -157, 4000, "shoot"),
          ScenarioTank("enemy_13", "medium", 2, <<-6000, 0, 0>>, 157, 3000, "shoot")>>)
     EXCEPT !.secondPlayer = TRUE,
            !.player2 = <<NewPlayer("player2", <<1500, 0, 0>>)>>,
            !.enemyManager.spawnTimer = 4900,
            !.projectiles =
                <<NewProjectile([ownerId |-> "enemy_13", position |-> <<-500, 110, 0>>,
                                 velocity |-> <<350, 1, 0>>, rotation |-> 157, age |-> 1500]),
                  NewProjectile([ownerId |-> "enemy_9", position |-> <<1269, 110, 262>>,
                                 velocity |-> <<231, 4, -262>>, rotation |-> 242, age |-> 600]),
                  NewProjectile([ownerId |-> "player", position |-> <<0, 120, 1000>>,
                                 velocity |-> <<0, 0, 600>>, speed |-> 600, age |-> 200]),
                  NewProjectile([ownerId |-> "player_guided", position |-> <<-1600, 150, 1000>>,
                                 velocity |-> <<-250, 0, 0>>, rotation |-> -157, speed |-> 250,
                                 type |-> "guided", target |-> "enemy_10", turnRate |-> 300,
                                 lifetime |-> 8000, age |-> 900]),
                  NewProjectile([ownerId |-> "player2", position |-> <<1500, 120, 1000>>,
                                 velocity |-> <<0, 0, 600>>, speed |-> 600, age |-> 200]),
                  NewProjectile([ownerId |-> "player2_guided", position |-> <<2650, 150, -1000>>,
                                 velocity |-> <<250, 0, 0>>, rotation |-> 157, speed |-> 250,
                                 type |-> "guided", target |-> "enemy_12", turnRate |-> 300,
                                 lifetime |-> 8000, age |-> 700])>>]

\* The player drives towards two power-ups, one of them about to expire,
\* with a shield and a freeze effect still running; a tank is ready to fire
\* and the next enemy is due
Pickup ==
    [PlayingGame("medium", 1, 5,
        <<ScenarioTank("enemy_4", "medium", 1, <<-4500, 0, 0>>, 157, 100, "pursue")>>)
     EXCEPT !.player.input.forward = TRUE,
            !.player.velocity = <<0, 0, 150>>,
            !.player.currentSpeed = 150,
            !.player.invulnerable = TRUE,
            !.player.invulnerabilityTime = 2000,
            !.enemyManager.spawnTimer = 4900,
            !.powerupManager =
                [NewPowerUpManager EXCEPT
                    !.spawnTimer = 8000,
                    !.activePowerups = [shield |-> 2000, freeze |-> 300, xray |-> 0],
                    !.powerups = <<[NewPowerUp(<<0, 0, 400>>, "xray") EXCEPT !.age = 29900],
                                   [NewPowerUp(<<200, 0, 300>>, "shield") EXCEPT !.age = 6000]>>]]

\* The player drives towards a power-up while a shell is about to hit
Ambushed ==
    [PlayingGame("medium", 1, 5,
        <<ScenarioTank("enemy_2", "medium", 1, <<-4500, 0, 100>>, 157, 3300, "shoot")>>)
     EXCEPT !.player.input.forward = TRUE,
            !.player.velocity = <<0, 0, 150>>,
            !.player.currentSpeed = 150,
            !.powerupManager =
                [NewPowerUpManager EXCEPT
                    !.spawnTimer = 3000,
                    !.powerups = <<[NewPowerUp(<<0, 0, 450>>, "freeze") EXCEPT !.age = 3000]>>],
            !.projectiles = <<NewProjectile([ownerId |-> "enemy_2",
                                             position |-> <<-500, 110, 150>>,
                                             velocity |-> <<350, 0, 0>>,
                                             rotation |-> 157, age |-> 1000])>>]

\* Two players on the last life of the game, each with a shell about to hit
LastLife ==
    [PlayingGame("medium", 2, 1,
        <<ScenarioTank("enemy_6", "medium", 2, <<-6000, 0, 0>>, 157, 3000, "shoot"),
          ScenarioTank("enemy_7", "medium", 2, <<0, 0, 1700>>, 314, 2500, "shoot")>>)
     EXCEPT !.secondPlayer = TRUE,
            !.player2 = <<NewPlayer("player2", <<1500, 0, 0>>)>>,
            !.projectiles =
                <<NewProjectile([ownerId |-> "enemy_6", position |-> <<-500, 110, 0>>,
                                 velocity |-> <<350, 1, 0>>, rotation |-> 157, age |-> 1500]),
                  NewProjectile([ownerId |-> "enemy_7", position |-> <<1269, 110, 262>>,
                                 velocity |-> <<231, 4, -262>>, rotation |-> 242,
                                 age |-> 600])>>]

\* The player on the last life and the last tank of the level, each with a
\* shell of the other about to hit
LastStand ==
    [PlayingGame("medium", 1, 1,
        <<ScenarioTank("enemy_3", "medium", 1, <<0, 0, 1500>>, 314, 3000, "shoot")>>)
     EXCEPT !.projectiles =
                <<NewProjectile([ownerId |-> "player", position |-> <<100, 120, 1000>>,
                                 velocity |-> <<0, 0, 600>>, speed |-> 600, age |-> 200]),
                  NewProjectile([ownerId |-> "enemy_3", position |-> <<-100, 110, 500>>,
                                 velocity |-> <<0, 0, -350>>, rotation |-> 314,
                                 age |-> 300])>>]

\* A shell and a guided missile of the player are about to hit the same tank
Volley ==
    [PlayingGame("medium", 1, 5,
        <<ScenarioTank("enemy_2", "medium", 1, <<0, 0, 1500>>, 314, 3000, "shoot"),
          ScenarioTank("enemy_3", "medium", 1, <<-6000, 0, 0>>, 157, 3500, "wander")>>)
     EXCEPT !.projectiles =
                <<NewProjectile([ownerId |-> "player", position |-> <<0, 120, 1000>>,
                                 velocity |-> <<0, 0, 600>>, speed |-> 600, age |-> 200]),
                  NewProjectile([ownerId |-> "player_guided", position |-> <<0, 150, 1250>>,
                                 velocity |-> <<0, 0, 250>>, speed |-> 250,
                                 type |-> "guided", target |-> "enemy_2", turnRate |-> 300,
                                 lifetime |-> 8000, age |-> 900])>>]

\* The game was paused while a tank waited behind a mountain
PausedGame == [Blocked EXCEPT !.state = "paused"]

Scenarios ==
    {MenuGame, Duel, Crossfire, Beside, AwaitingRespawn, LastEnemy, Crowded, Blocked, Barrage,
     Pickup, Ambushed, PausedGame, LastLife, LastStand,
     Volley}

\* ------------------------------------------------------------- Specification
\* The run starts in the situation sc
StartsAs(sc) ==
        /\ state = sc.state
        /\ score = sc.score
        /\ lives = sc.lives
        /\ level = sc.level
        /\ difficulty = sc.difficulty
        /\ secondPlayer = sc.secondPlayer
        /\ player = sc.player
        /\ player2 = sc.player2
        /\ enemyManager = sc.enemyManager
        /\ projectiles = sc.projectiles
        /\ particles = sc.particles
        /\ powerupManager = sc.powerupManager
        /\ timers = sc.timers
        /\ lastTime = 0
        /\ frameDelta = 0
        /\ frame = 0
        /\ inputs = 0
        /\ lastOp = "init"
        /\ hits = <<>>
        /\ shooters = <<>>
        /\ returned = NULL
        /\ created = 0

Init == \E sc \in Scenarios : StartsAs(sc)

Next ==
    \/ Update
    \/ KeyDown
    \/ KeyUp
    \/ ClickDifficulty
    \/ ToggleSecondPlayer
    \/ RespawnTimeoutOuter
    \/ RespawnTimeoutInner

Spec == Init /\ [][Next]_vars

\* ------------------------------------------- The game under an uneven clock
\* Game.update called with timestamps that lie 0, 16, 100 or 250 ms apart, in
\* the menu and during a game.
ClockTicks == 4         \* animation frames in a run
ClockTimes == {0, 16, 100, 250}

ClockUpdate == \E elapsed \in ClockTimes : frame < ClockTicks /\ UpdateAt(elapsed, RndA)

InitClock == StartsAs(MenuGame) \/ StartsAs(Duel)
NextClock == ClockUpdate
SpecClock == InitClock /\ [][NextClock]_vars

\* ------------------------------------------- The projectile pool on its own
\* Calls of ProjectileManager.createProjectile and ProjectileManager.update on
\* a pool with no obstacle and no entity around.
PoolCreations == 52     \* calls of createProjectile in a run
PoolUpdates == 1        \* calls of update in a run

\* The configuration of the k-th creation; one shot in seven lives 0.1 s
PoolConfig(k) ==
    [ownerId |-> "shot_" \o ToString(k),
     position |-> <<0, 100, 0>>,
     velocity |-> <<(k % 5) * 100 - 200, 0, 300>>,
     lifetime |-> IF k % 7 = 0 THEN 100 ELSE 5000]

PoolCreate ==
    /\ created < PoolCreations
    /\ projectiles' = createProjectile(projectiles, PoolConfig(created + 1))
    /\ created' = created + 1
    /\ lastOp' = "createProjectile"
    /\ UNCHANGED <<state, score, lives, level, difficulty, secondPlayer, player, player2,
                   enemyManager, particles, powerupManager, timers, lastTime, frameDelta,
                   frame, inputs, hits, shooters, returned>>

PoolUpdate ==
    \E r \in {ProjectileManagerUpdate(projectiles, MaxDeltaTime, <<>>, <<>>, <<>>)} :
        /\ frame < PoolUpdates
        /\ frame' = frame + 1
        /\ projectiles' = r.projectiles
        /\ returned' = r.hits
        /\ lastOp' = "update"
        /\ UNCHANGED <<state, score, lives, level, difficulty, secondPlayer, player, player2,
                       enemyManager, particles, powerupManager, timers, lastTime,
                       frameDelta, inputs, hits, shooters, created>>

InitPool == StartsAs(MenuGame)
NextPool == PoolCreate \/ PoolUpdate
SpecPool == InitPool /\ [][NextPool]_vars

\* ---------------------------------------------- Projectiles over the terrain
\* Calls of ProjectileManager.createProjectile and ProjectileManager.update
\* with the obstacles of the terrain and two entities around: an invulnerable
\* player and a tank.
ShotCreations == 9      \* calls of createProjectile in a run
ShotUpdates == 4        \* calls of update in a run

ShotEntities ==
    <<[NewPlayer("player", <<0, 0, -3000>>) EXCEPT !.invulnerable = TRUE,
                                                     !.invulnerabilityTime = 2500],
      ScenarioTank("enemy_1", "medium", 1, <<-3000, 0, 0>>, 0, 3000, "wander")>>

\* The configurations of the creations, in order: a shot that lives 0.2 s, one
\* that leaves the terrain, one that dives into the ground, a ballistic one
\* that lands, one that flies into an obstacle, one that flies into the tank,
\* one that passes over the invulnerable player, one of the tank inside its
\* own circle, a guided missile on its way to the tank
ShotConfigs ==
    <<[ownerId |-> "shot_1", position |-> <<5000, 100, 5000>>, velocity |-> <<0, 0, 100>>,
       lifetime |-> 200],
      [ownerId |-> "shot_2", position |-> <<10500, 100, 0>>, velocity |-> <<300, 0, 0>>],
      [ownerId |-> "shot_3", position |-> <<0, 60, 500>>, velocity |-> <<0, -400, 300>>],
      [ownerId |-> "shot_4", position |-> <<500, 30, 500>>, velocity |-> <<100, 0, 100>>,
       type |-> "ballistic"],
      [ownerId |-> "shot_5", position |-> <<0, 100, 2300>>, velocity |-> <<0, 0, 350>>],
      [ownerId |-> "shot_6", position |-> <<-3800, 110, 0>>, velocity |-> <<350, 0, 0>>],
      [ownerId |-> "shot_7", position |-> <<0, 110, -3500>>, velocity |-> <<0, 0, 350>>],
      [ownerId |-> "enemy_1", position |-> <<-3100, 120, 0>>, velocity |-> <<0, 0, 100>>],
      [ownerId |-> "player_guided", position |-> <<-5000, 150, 0>>, velocity |-> <<250, 0, 0>>,
       speed |-> 250, type |-> "guided", target |-> "enemy_1", turnRate |-> 300,
       lifetime |-> 8000]>>

ShotConfig(k) ==
    IF k <= Len(ShotConfigs) THEN ShotConfigs[k]
    ELSE [ShotConfigs[((k - 1) % Len(ShotConfigs)) + 1] EXCEPT !.ownerId = "shot_" \o ToString(k)]

ShotsCreate ==
    /\ created < ShotCreations
    /\ projectiles' = createProjectile(projectiles, ShotConfig(created + 1))
    /\ created' = created + 1
    /\ lastOp' = "createProjectile"
    /\ UNCHANGED <<state, score, lives, level, difficulty, secondPlayer, player, player2,
                   enemyManager, particles, powerupManager, timers, lastTime, frameDelta,
                   frame, inputs, hits, shooters, returned>>

ShotsUpdate ==
    \E r \in {ProjectileManagerUpdate(projectiles, MaxDeltaTime, Obstacles, ShotEntities,
                                       ShotEntities)} :
        /\ frame < ShotUpdates
        /\ frame' = frame + 1
        /\ projectiles' = r.projectiles
        /\ returned' = r.hits
        /\ lastOp' = "update"
        /\ UNCHANGED <<state, score, lives, level, difficulty, secondPlayer, player, player2,
                       enemyManager, particles, powerupManager, timers, lastTime,
                       frameDelta, inputs, hits, shooters, created>>

InitShots == StartsAs(MenuGame)
NextShots == ShotsCreate \/ ShotsUpdate
SpecShots == InitShots /\ [][NextShots]_vars

\* ------------------------------------------------ Guided launches on their own
\* Calls of Game.playerShootGuided on fields the game can hold: the empty field
\* of the menu, the field of a completed level where only the destroyed UFO is
\* left, and fields of a game in progress.
GuidedCalls == 2        \* calls of playerShootGuided in a run

GuidedTank(id, position) == ScenarioTank(id, "medium", 1, position, 0, 3000, "wander")
GuidedUFO(position, alive) ==
    [NewUFO("ufo_9", [position |-> position, shootTimer |-> 5000, moveAngle |-> 100,
                      bobPhase |-> 200]) EXCEPT !.alive = alive]

GuidedField(st, enemies, ufo) ==
    [PlayingGame("medium", 1, 3, enemies) EXCEPT !.state = st, !.enemyManager.ufo = ufo]

GuidedFields ==
    {MenuGame,
     GuidedField("level_complete", <<>>, <<GuidedUFO(<<500, 2000, 0>>, FALSE)>>),
     GuidedField("playing", <<>>, <<GuidedUFO(<<500, 2000, 0>>, TRUE)>>),
     GuidedField("playing", <<GuidedTank("enemy_1", <<-4000, 0, 0>>),
                              GuidedTank("enemy_2", <<1000, 0, 1000>>)>>, <<>>),
     GuidedField("playing", <<GuidedTank("enemy_1", <<2000, 0, 0>>),
                              GuidedTank("enemy_2", <<-2000, 0, 0>>),
                              GuidedTank("enemy_3", <<0, 0, 2500>>)>>, <<>>),
     GuidedField("playing", <<GuidedTank("enemy_1", <<-4000, 0, 0>>)>>,
                            <<GuidedUFO(<<500, 2000, 0>>, FALSE)>>),
     GuidedField("playing", <<GuidedTank("enemy_1", <<2000, 0, 0>>)>>,
                            <<GuidedUFO(<<-1500, 2000, 0>>, TRUE)>>),
     GuidedField("playing", <<GuidedTank("enemy_1", <<2000, 0, 0>>),
                              GuidedTank("enemy_2", <<0, 0, -1000>>)>>,
                            <<GuidedUFO(<<-1500, 2000, 0>>, TRUE)>>)}

GuidedPositions == {<<0, 0, 0>>, <<3000, 0, -2000>>, <<-1000, 0, 4000>>, <<-3500, 0, 500>>}

\* The firing player: in action, destroyed, or reloading
GuidedPlayers ==
    {[NewPlayer("player", position) EXCEPT !.rotation = 157] : position \in GuidedPositions}
        \cup {[NewPlayer("player", <<0, 0, 0>>) EXCEPT !.alive = FALSE],
              [NewPlayer("player", <<0, 0, 0>>) EXCEPT !.canShoot = FALSE]}

GuidedCall ==
    /\ inputs < GuidedCalls
    /\ inputs' = inputs + 1
    /\ projectiles' = playerShootGuided(projectiles, player, enemyManager)
    /\ created' = created + (IF projectiles' # projectiles THEN 1 ELSE 0)
    /\ lastOp' = "playerShootGuided"
    /\ UNCHANGED <<state, score, lives, level, difficulty, secondPlayer, player, player2,
                   enemyManager, particles, powerupManager, timers, lastTime, frameDelta,
                   frame, hits, shooters, returned>>

InitGuided == \E f \in GuidedFields, p \in GuidedPlayers : StartsAs([f EXCEPT !.player = p])
NextGuided == GuidedCall
SpecGuided == InitGuided /\ [][NextGuided]_vars

\* ---------------------------------------------------- Probes of the obstacles
\* Calls of Collision.checkObstacleCollision and of Projectile.checkCollisions
\* with a probe placed around obstacles of both types.
ProbeCalls == 1         \* probes in a run

ProbeObstacle(id, type, position, baseSize) ==
    [id |-> id, position |-> position, type |-> type,
     size |-> <<baseSize, IF type = "cube" THEN 350 ELSE RDiv(baseSize * 3, 2), baseSize>>,
     collisionRadius |-> RDiv(baseSize * 7, 10)]

\* A pyramid alone, a cube alone, a cube before a pyramid on the same spot, and
\* a small pyramid before a large cube beside it
ProbeFields ==
    {<<ProbeObstacle("obstacle_0", "pyramid", <<0, 0, 0>>, 400)>>,
     <<ProbeObstacle("obstacle_0", "cube", <<0, 0, 0>>, 400)>>,
     <<ProbeObstacle("obstacle_0", "cube", <<0, 0, 0>>, 400),
       ProbeObstacle("obstacle_1", "pyramid", <<0, 0, 0>>, 400)>>,
     <<ProbeObstacle("obstacle_0", "pyramid", <<-300, 0, 0>>, 300),
       ProbeObstacle("obstacle_1", "cube", <<300, 0, 100>>, 600)>>}

ProbeXs == {-601, -600, 0, 200, 201, 300, 400, 401, 600}
ProbeYs == {-1, 0, 351, 600, 601}
ProbeZs == {-401, -400, 0, 200, 201}
ProbeRadii == {0, 200}

Probed(op) ==
    /\ frame' = frame + 1
    /\ lastOp' = op
    /\ UNCHANGED <<state, score, lives, level, difficulty, secondPlayer, player, player2,
                   enemyManager, projectiles, particles, powerupManager, timers, lastTime,
                   frameDelta, inputs, hits, shooters, created>>

ProbeEntity ==
    /\ frame < ProbeCalls
    /\ \E x \in ProbeXs, z \in ProbeZs, radius \in ProbeRadii, obstacles \in ProbeFields :
        /\ returned' = [position |-> <<x, 0, z>>, radius |-> radius, obstacles |-> obstacles,
                        found |-> checkObstacleCollision(<<x, 0, z>>, radius, obstacles),
                        obstacle |-> checkObstacleCollisionAt(<<x, 0, z>>, radius, obstacles)]
        /\ Probed("checkObstacleCollision")

ProbeProjectile ==
    /\ frame < ProbeCalls
    /\ \E x \in ProbeXs, y \in ProbeYs, z \in ProbeZs, obstacles \in ProbeFields :
        /\ returned' = [position |-> <<x, y, z>>, obstacles |-> obstacles,
                        hit |-> checkCollisions(NewProjectile([ownerId |-> "player",
                                                               position |-> <<x, y, z>>]),
                                                obstacles, <<>>, "player")]
        /\ Probed("checkCollisions")

InitProbe == StartsAs(MenuGame)
NextProbe == ProbeEntity \/ ProbeProjectile
SpecProbe == InitProbe /\ [][NextProbe]_vars

\* ------------------------------------------------ Position searches, by round
\* The loops of Terrain.generateObstacles, Terrain.getRandomSpawnPosition and
\* Terrain.getEdgeSpawnPosition, one round at a time.  returned holds the
\* search: its arguments, the draws of Math.random it will make, its counter,
\* the positions tried so far, and position (<<>> while undefined), the value
\* it returns once done.
SearchCalls == 1        \* searches in a run

SearchKinds == {"generateObstacles", "getRandomSpawnPosition", "getEdgeSpawnPosition"}

NewSearch(kind, draws, avoidPositions, minDistance, viewDirection, obstacles) ==
    [kind |-> kind, draws |-> draws, avoidPositions |-> avoidPositions,
     minDistance |-> minDistance, viewDirection |-> viewDirection, obstacles |-> obstacles,
     attempts |-> 0, tried |-> <<>>, position |-> <<>>, done |-> FALSE]

PlacedObstacles == SubSeq(Obstacles, 1, 3)
Taken == <<<<0, 0, 0>>, <<3000, 0, 3000>>, <<-8500, 0, -2000>>>>
NorthView == <<[from |-> <<0, 0, 0>>, dir |-> <<0, 0, 1000>>]>>

\* The placing of the fourth obstacle: free at once, free at the third draw, never
ObstacleSearches ==
    {NewSearch("generateObstacles", draws, <<>>, 800, <<>>, PlacedObstacles) :
        draws \in {<<<<5000, 0, 5000>>>>,
                   <<PlacedObstacles[1].position,
                     <<PlacedObstacles[2].position[1] + 500, 0, PlacedObstacles[2].position[3]>>,
                     <<5000, 0, 5000>>>>,
                   <<PlacedObstacles[1].position,
                     <<PlacedObstacles[3].position[1], 0, PlacedObstacles[3].position[3] - 799>>>>}}

\* The respawn of a player and the placing of a power-up: valid at once, valid
\* at the third draw, never
RandomSearches ==
    {NewSearch("getRandomSpawnPosition", draws, Taken, 1000, <<>>, Obstacles) :
        draws \in {<<<<6000, 0, 7000>>>>,
                   <<<<3000, 0, 3600>>, Obstacles[2].position, <<6000, 0, 7000>>>>,
                   <<<<-600, 0, 0>>, <<Obstacles[1].position[1] + 600, 0,
                                       Obstacles[1].position[3]>>>>}}
        \cup {NewSearch("getRandomSpawnPosition", <<<<0, 0, 0>>>>, <<>>, 2000, <<>>, Obstacles)}

\* The spawn of a tank: valid at once, valid at the third draw after a side in
\* front of the viewer and a taken position, never, and without a viewer
EdgeSearches ==
    {NewSearch("getEdgeSpawnPosition", draws, Taken, 2000, NorthView, Obstacles) :
        draws \in {<<[side |-> 2, along |-> 4000]>>,
                   <<[side |-> 0, along |-> -3000], [side |-> 3, along |-> -1000],
                     [side |-> 1, along |-> -6000]>>,
                   <<[side |-> 0, along |-> 8500], [side |-> 3, along |-> -3000],
                     [side |-> 1, along |-> 100], [side |-> 3, along |-> -2500]>>}}
        \cup {NewSearch("getEdgeSpawnPosition", <<[side |-> 0, along |-> -8500]>>, <<>>, 2000,
                        <<>>, Obstacles)}

Searching == lastOp \in SearchKinds /\ ~returned.done
SearchOver == lastOp \in SearchKinds /\ returned.done

SearchStepped(op) ==
    /\ lastOp' = op
    /\ UNCHANGED <<state, score, lives, level, difficulty, secondPlayer, player, player2,
                   enemyManager, projectiles, particles, powerupManager, timers, lastTime,
                   frameDelta, inputs, hits, shooters, created>>

\* The call: nothing has been tried yet
SearchBegin ==
    /\ frame < SearchCalls
    /\ ~Searching
    /\ frame' = frame + 1
    /\ \E s \in ObstacleSearches \cup RandomSearches \cup EdgeSearches :
          /\ returned' = s
          /\ SearchStepped(s.kind)

ObstacleRound ==
    /\ Searching
    /\ returned.kind = "generateObstacles"
    /\ returned' = ObstacleSearchStep(returned)
    /\ UNCHANGED frame
    /\ SearchStepped(returned.kind)

RandomRound ==
    /\ Searching
    /\ returned.kind = "getRandomSpawnPosition"
    /\ returned' = RandomSearchStep(returned)
    /\ UNCHANGED frame
    /\ SearchStepped(returned.kind)

EdgeRound ==
    /\ Searching
    /\ returned.kind = "getEdgeSpawnPosition"
    /\ returned' = EdgeSearchStep(returned)
    /\ UNCHANGED frame
    /\ SearchStepped(returned.kind)

SearchRound == ObstacleRound \/ RandomRound \/ EdgeRound

InitSearch == StartsAs(MenuGame)
NextSearch == SearchBegin \/ ObstacleRound \/ RandomRound \/ EdgeRound
\* A loop that has begun keeps running: nothing else runs on the thread
SpecSearch == InitSearch /\ [][NextSearch]_vars /\ WF_vars(SearchRound)

\* -------------------------------------------------------- The turret on its own
\* Calls of Player.update with the turret keys held, alone and with a turn of
\* the chassis, over short and long frames.
TurretCalls == 10       \* calls of Player.update in a run

TurretInputs ==
    {NoInput, [NoInput EXCEPT !.turretUp = TRUE], [NoInput EXCEPT !.turretDown = TRUE],
     [NoInput EXCEPT !.turretUp = TRUE, !.turretDown = TRUE],
     [NoInput EXCEPT !.turretUp = TRUE, !.left = TRUE]}
TurretFrames == {50, 100}

TurretUpdate ==
    /\ frame < TurretCalls
    /\ \E input \in TurretInputs, deltaTime \in TurretFrames :
          /\ player' = PlayerUpdate([player EXCEPT !.input = input], deltaTime, Obstacles,
                                    Mountains, <<>>, RndA.push)
          /\ frameDelta' = deltaTime
    /\ frame' = frame + 1
    /\ lastOp' = "update"
    /\ UNCHANGED <<state, score, lives, level, difficulty, secondPlayer, player2,
                   enemyManager, projectiles, particles, powerupManager, timers, lastTime,
                   inputs, hits, shooters, created, returned>>

InitTurret == StartsAs(MenuGame)
NextTurret == TurretUpdate
SpecTurret == InitTurret /\ [][NextTurret]_vars

\* ------------------------------------------------------- Clamps to the bounds
\* Calls of Terrain.clampToBounds, once and again on its result, and of
\* Terrain.isInBounds on the result.
ClampCalls == 1         \* calls in a run

ClampCoordinates == {-12000, -10000, -9001, -9000, -8500, 0, 8500, 9000, 10001}
ClampHeights == {0, 150}
\* The margins the game passes (5 by default, 10, 15, 20, -10 to isInBounds),
\* no margin, half the terrain, and more than half
ClampMargins == {-1000, 0, 500, 1000, 1500, 2000, 10000, 15000}

ClampCall ==
    /\ frame < ClampCalls
    /\ \E x \in ClampCoordinates, y \in ClampHeights, z \in ClampCoordinates,
          margin \in ClampMargins :
          \E once \in {clampToBounds(<<x, y, z>>, margin)} :
             returned' = [position |-> <<x, y, z>>, margin |-> margin, once |-> once,
                          twice |-> clampToBounds(once, margin),
                          inBounds |-> isInBounds(once[1], once[3], margin)]
    /\ frame' = frame + 1
    /\ lastOp' = "clampToBounds"
    /\ UNCHANGED <<state, score, lives, level, difficulty, secondPlayer, player, player2,
                   enemyManager, projectiles, particles, powerupManager, timers, lastTime,
                   frameDelta, inputs, hits, shooters, created>>

InitClamp == StartsAs(MenuGame)
NextClamp == ClampCall
SpecClamp == InitClamp /\ [][NextClamp]_vars

\* ------------------------------------------------------------ Ballistic shots
\* Calls of PhysicsEngine.calculateBallisticShot on targets in and out of
\* range, level with, above and below the origin.
BallisticCalls == 1     \* calls in a run

BallisticOrigins == {<<0, 0, 0>>, <<1000, 100, -2000>>}
BallisticOffsets ==
    {<<x, y, z>> : x \in {-5000, 0, 1000, 5000, 9000}, y \in {-200, 0, 1000, 4000},
                   z \in {-3000, 0, 1000}}
BallisticSpeeds == {0, 100, 300, 600}

BallisticCall ==
    /\ frame < BallisticCalls
    /\ \E origin \in BallisticOrigins, offset \in BallisticOffsets, speed \in BallisticSpeeds :
          \E target \in {<<origin[1] + offset[1], origin[2] + offset[2],
                            origin[3] + offset[3]>>} :
             returned' = [origin |-> origin, target |-> target, speed |-> speed,
                          shot |-> calculateBallisticShot(origin, target, speed)]
    /\ frame' = frame + 1
    /\ lastOp' = "calculateBallisticShot"
    /\ UNCHANGED <<state, score, lives, level, difficulty, secondPlayer, player, player2,
                   enemyManager, projectiles, particles, powerupManager, timers, lastTime,
                   frameDelta, inputs, hits, shooters, created>>

InitBallistic == StartsAs(MenuGame)
NextBallistic == BallisticCall
SpecBallistic == InitBallistic /\ [][NextBallistic]_vars

\* ------------------------------------------------------- A missile on its own
\* Calls of PhysicsEngine.updateGuidedMissile, frame after frame at 60 frames
\* per second, on a missile of turn rate 3.5 and speed 30 launched at several
\* angles off a tank that stands still.
HomingTicks == 24       \* calls of updateGuidedMissile in a run
HomingFrames == {17}    \* ms, 1/60 s

HomingTarget == GuidedTank("enemy_1", <<0, 0, 5000>>)

\* The velocity at launch: at the tank, 0.1 rad, 45 degrees and 90 degrees off
\* it, and straight away from it; on the level of the aim point and below it
HomingLaunches ==
    {[position |-> <<0, y, 0>>, velocity |-> velocity] :
        y \in {150, 100},
        velocity \in {<<0, 0, 300>>, <<30, 0, 298>>, <<212, 0, 212>>, <<300, 0, 0>>,
                       <<0, 0, -300>>}}

HomingMissile(launch) ==
    NewProjectile([ownerId |-> "player_guided", position |-> launch.position,
                   velocity |-> launch.velocity, speed |-> 300, type |-> "guided",
                   target |-> HomingTarget.id, turnRate |-> 350, lifetime |-> 8000])

HomingTick ==
    /\ frame < HomingTicks
    /\ \E deltaTime \in HomingFrames :
          /\ frameDelta' = deltaTime
          /\ projectiles' = <<updateGuidedMissile(projectiles[1], enemyManager.enemies[1],
                                                  deltaTime)>>
    /\ frame' = frame + 1
    /\ lastOp' = "updateGuidedMissile"
    /\ UNCHANGED <<state, score, lives, level, difficulty, secondPlayer, player, player2,
                   enemyManager, particles, powerupManager, timers, lastTime,
                   inputs, hits, shooters, created, returned>>

InitHoming ==
    \E launch \in HomingLaunches :
        StartsAs([PlayingGame("medium", 1, 3, <<HomingTarget>>) EXCEPT
                     !.projectiles = <<HomingMissile(launch)>>])
NextHoming == HomingTick
SpecHoming == InitHoming /\ [][NextHoming]_vars

\* ----------------------------------------------- The time after a respawn
\* The respawn callback of a destroyed player is due; it runs, and the game is
\* updated for some seconds.  A shield effect is not active, or was started by
\* a shield picked up in the frame of the death or shortly after it, at most
\* two seconds before; a shield may lie ahead of the spawn position, and the
\* key to drive forward may be held.
WindowTicks == 32       \* animation frames in a run
WindowFrames == {100}

WindowShields == {0, 8000, 9500}
WindowPowerups == {<<>>, <<[NewPowerUp(<<0, 0, 500>>, "shield") EXCEPT !.age = 9000]>>}

WindowGame(shield, powerups, forward) ==
    [PlayingGame("medium", 1, 4,
        <<ScenarioTank("enemy_1", "medium", 1, <<-6000, 0, 0>>, 157, 3500, "wander")>>)
     EXCEPT !.player.alive = FALSE,
            !.player.input.forward = forward,
            !.player.invulnerable = shield > 0,
            !.player.invulnerabilityTime = shield,
            !.timers = <<[stage |-> 2, remaining |-> 0, target |-> "player"]>>,
            !.powerupManager =
                [NewPowerUpManager EXCEPT
                    !.spawnTimer = 12000,
                    !.activePowerups = [shield |-> shield, freeze |-> 0, xray |-> 0],
                    !.powerups = powerups]]

\* Game.update, one animation frame of deltaTime ms; lastTime is the time
\* simulated since the start of the run
WindowUpdate ==
    /\ frame < WindowTicks
    /\ ~AnyDue
    /\ \E deltaTime \in WindowFrames :
       \E g \in {GameTick(TimersAged(Game, deltaTime), deltaTime, RndA)} :
          /\ frameDelta' = deltaTime
          /\ lastTime' = lastTime + deltaTime
          /\ state' = g.state
          /\ score' = g.score
          /\ lives' = g.lives
          /\ player' = g.player
          /\ player2' = g.player2
          /\ enemyManager' = g.enemyManager
          /\ projectiles' = g.projectiles
          /\ particles' = g.particles
          /\ powerupManager' = g.powerupManager
          /\ timers' = g.timers
          /\ hits' = g.hits
          /\ shooters' = g.shooters
          /\ created' = g.created
    /\ frame' = frame + 1
    /\ lastOp' = "update"
    /\ UNCHANGED <<level, difficulty, secondPlayer, inputs, returned>>

InitWindow ==
    \E shield \in WindowShields, powerups \in WindowPowerups, forward \in BOOLEAN :
        StartsAs(WindowGame(shield, powerups, forward))
NextWindow == WindowUpdate \/ RespawnTimeoutInner
SpecWindow == InitWindow /\ [][NextWindow]_vars

\* ------------------------------------------ Projectiles to the end of their lives
\* Calls of ProjectileManager.update, frame after frame, on pools of
\* projectiles that have less than half a second to live and nothing in
\* their way: shells, a ballistic shell, and guided missiles whose target is
\* null, alive, dead, or removed from the game.
ExpiryTicks == 10       \* calls of update in a run
ExpiryFrames == {50, 100}

ExpiryEntities ==
    <<ScenarioTank("enemy_1", "medium", 1, <<-8000, 0, 0>>, 0, 3000, "wander"),
      [ScenarioTank("enemy_2", "medium", 1, <<8000, 0, 0>>, 0, 3000, "wander")
          EXCEPT !.alive = FALSE]>>

ExpiryMissile(owner, target, age) ==
    NewProjectile([ownerId |-> owner, position |-> <<0, 1500, 0>>, velocity |-> <<0, 0, 250>>,
                   speed |-> 250, type |-> "guided", target |-> target, lifetime |-> 8000,
                   age |-> age])

ExpiryPools ==
    {<<NewProjectile([ownerId |-> "player", position |-> <<0, 1500, -2000>>,
                      velocity |-> <<0, 0, 600>>, speed |-> 600, age |-> 4800]),
       ExpiryMissile("player_guided", NULL, 7700),
       ExpiryMissile("player2_guided", "enemy_9", 7600)>>,
     <<ExpiryMissile("player_guided", "enemy_1", 7900),
       ExpiryMissile("player2_guided", "enemy_2", 7650),
       NewProjectile([ownerId |-> "enemy_1", position |-> <<-7000, 3000, 0>>,
                      velocity |-> <<200, 100, 0>>, type |-> "ballistic", age |-> 4750])>>,
     <<NewProjectile([ownerId |-> "player2", position |-> <<3000, 1500, 0>>,
                      velocity |-> <<0, 0, 0>>, lifetime |-> 200])>>}

ExpiryOwners == {"player", "player2", "player_guided", "player2_guided", "enemy_1"}

ExpiryUpdate ==
    /\ frame < ExpiryTicks
    /\ \E deltaTime \in ExpiryFrames :
       \E r \in {ProjectileManagerUpdate(projectiles, deltaTime, Obstacles, ExpiryEntities,
                                          ExpiryEntities)} :
          /\ frameDelta' = deltaTime
          /\ lastTime' = lastTime + deltaTime
          /\ projectiles' = r.projectiles
    /\ frame' = frame + 1
    /\ lastOp' = "update"
    /\ UNCHANGED <<state, score, lives, level, difficulty, secondPlayer, player, player2,
                   enemyManager, particles, powerupManager, timers, inputs, hits, shooters,
                   created, returned>>

InitExpiry ==
    \E pool \in ExpiryPools :
        StartsAs([PlayingGame("medium", 1, 3, ExpiryEntities) EXCEPT !.projectiles = pool])
NextExpiry == ExpiryUpdate
\* An animation frame occurs, which is a step of ExpiryUpdate
ExpiryFrame == frame < ExpiryTicks /\ frame' = frame + 1
\* The animation loop calls update again and again
SpecExpiry == InitExpiry /\ [][NextExpiry]_vars /\ WF_frame(ExpiryFrame)

\* ------------------------------------------------------ Tanks among themselves
TankTicks == 3
TankFrames == {50, 100}
TankDraws == {RndA, RndB}

\* A tank of a medium game at level 1 in the given state, heading where it looks
SceneTank(id, position, rotation, shootTimer, st) ==
    ScenarioTank(id, "medium", 1, position, rotation, shootTimer, st)

\* Two tanks that have fired stand 3 units apart, overlapping by 1 unit
Pair ==
    <<SceneTank("enemy_1", <<2000, 0, 1500>>, -221, 2500, "shoot"),
      SceneTank("enemy_2", <<2300, 0, 1500>>, -215, 1800, "shoot")>>

\* Tanks driving at an obstacle, at a mountain and at the player, and a tank
\* that has fired and stands alone
Halted ==
    <<SceneTank("enemy_1", <<3600, 0, 0>>, HALF_PI, 5000, "wander"),
      SceneTank("enemy_2", <<6600, 0, 0>>, HALF_PI, 5000, "wander"),
      SceneTank("enemy_3", <<-430, 0, 0>>, HALF_PI, 5000, "wander"),
      SceneTank("enemy_4", <<0, 0, -5000>>, 0, 2500, "shoot")>>

\* A tank drives into a tank that has fired; a third one, which overlaps that
\* tank too, drives at an obstacle
Jam ==
    <<SceneTank("enemy_1", <<3600, 0, 150>>, HALF_PI, 2500, "shoot"),
      SceneTank("enemy_2", <<3250, 0, 150>>, HALF_PI, 5000, "pursue"),
      SceneTank("enemy_3", <<3620, 0, -200>>, HALF_PI, 5000, "wander")>>

TankScenes == {Pair, Halted, Jam}

\* A game with the given tanks and no room for another; a destroyed player
\* waits for the respawn, 900 ms away
TankGame(enemies, playerAlive) ==
    Let(PlayingGame("medium", 1, 3, enemies), LAMBDA g :
    [g EXCEPT !.player.alive = playerAlive,
              !.timers = IF playerAlive THEN <<>>
                         ELSE <<[stage |-> 1, remaining |-> 900, target |-> "player"]>>,
              !.enemyManager.maxEnemies = Len(enemies)])

\* Game.update in the animation loop, with either record of draws
TankTick ==
    /\ frame < TankTicks
    /\ ~AnyDue
    /\ \E deltaTime \in TankFrames, rnd \in TankDraws :
       \E g \in {GameTick(TimersAged(Game, deltaTime), deltaTime, rnd)} :
          /\ frameDelta' = deltaTime
          /\ lastTime' = lastTime + deltaTime
          /\ state' = g.state
          /\ score' = g.score
          /\ lives' = g.lives
          /\ player' = g.player
          /\ player2' = g.player2
          /\ enemyManager' = g.enemyManager
          /\ projectiles' = g.projectiles
          /\ particles' = g.particles
          /\ powerupManager' = g.powerupManager
          /\ timers' = g.timers
          /\ hits' = g.hits
          /\ shooters' = g.shooters
          /\ created' = g.created
    /\ frame' = frame + 1
    /\ lastOp' = "update"
    /\ UNCHANGED <<level, difficulty, secondPlayer, inputs, returned>>

InitTank == \E enemies \in TankScenes, playerAlive \in BOOLEAN :
                StartsAs(TankGame(enemies, playerAlive))
NextTank == TankTick
SpecTank == InitTank /\ [][NextTank]_vars

\* ------------------------------------------------------------ A tank reloading
ReloadTicks == 30
ReloadFrames == {50, 100}
ReloadLevels == {1, 3, 5, 10}
ReloadTimers == {100, 400}

\* A hard game in which a tank 60 units away has the shielded player in its
\* sights, its shootTimer about to run out
ReloadGame(lvl, shootTimer) ==
    [PlayingGame("hard", lvl, 3,
        <<ScenarioTank("enemy_1", "hard", lvl, <<-6000, 0, 0>>, HALF_PI, shootTimer, "pursue")>>)
     EXCEPT !.player.invulnerable = TRUE,
            !.player.invulnerabilityTime = 9500,
            !.enemyManager.maxEnemies = 1,
            !.powerupManager =
                [NewPowerUpManager EXCEPT
                    !.activePowerups = [shield |-> 9500, freeze |-> 0, xray |-> 0]]]

\* Game.update in the animation loop at a steady frame rate
ReloadUpdate ==
    /\ frame < ReloadTicks
    /\ ~AnyDue
    /\ \E deltaTime \in ReloadFrames :
       /\ frame = 0 \/ deltaTime = frameDelta
       /\ \E g \in {GameTick(TimersAged(Game, deltaTime), deltaTime, RndA)} :
          /\ frameDelta' = deltaTime
          /\ lastTime' = lastTime + deltaTime
          /\ state' = g.state
          /\ score' = g.score
          /\ lives' = g.lives
          /\ player' = g.player
          /\ player2' = g.player2
          /\ enemyManager' = g.enemyManager
          /\ projectiles' = g.projectiles
          /\ particles' = g.particles
          /\ powerupManager' = g.powerupManager
          /\ timers' = g.timers
          /\ hits' = g.hits
          /\ shooters' = g.shooters
          /\ created' = g.created
    /\ frame' = frame + 1
    /\ lastOp' = "update"
    /\ UNCHANGED <<level, difficulty, secondPlayer, inputs, returned>>

InitReload == \E lvl \in ReloadLevels, shootTimer \in ReloadTimers :
                  StartsAs(ReloadGame(lvl, shootTimer))
NextReload == ReloadUpdate
SpecReload == InitReload /\ [][NextReload]_vars

\* -------------------------------------------- Missiles that lost their target
\* A guided missile in flight whose target was destroyed: the tank is still in
\* the list of the enemies, or was removed from it.
StrayTicks == 4
StrayFrames == {17, 50, 100}
StrayTargets == {"enemy_2", "enemy_9"}
StrayLaunches ==
    {[position |-> position, velocity |-> velocity] :
        position \in {<<0, 1500, 0>>, <<9900, 300, -4000>>},
        velocity \in {<<0, 0, 250>>, <<177, -50, -170>>, <<-120, 30, 217>>, <<231, -95, 7>>}}

StrayMissile(launch, target, age) ==
    NewProjectile([ownerId |-> "player_guided", position |-> launch.position,
                   velocity |-> launch.velocity, speed |-> 250, type |-> "guided",
                   target |-> target, lifetime |-> 8000, age |-> age])

\* ProjectileManager.update, called with the entities of the game
StrayUpdate ==
    /\ frame < StrayTicks
    /\ \E deltaTime \in StrayFrames :
       \E r \in {ProjectileManagerUpdate(projectiles, deltaTime, Obstacles, ExpiryEntities,
                                         ExpiryEntities)} :
          /\ frameDelta' = deltaTime
          /\ lastTime' = lastTime + deltaTime
          /\ projectiles' = r.projectiles
    /\ frame' = frame + 1
    /\ lastOp' = "update"
    /\ UNCHANGED <<state, score, lives, level, difficulty, secondPlayer, player, player2,
                   enemyManager, particles, powerupManager, timers, inputs, hits, shooters,
                   created, returned>>

InitStray ==
    \E launch \in StrayLaunches, target \in StrayTargets, age \in {500, 7800} :
        StartsAs([PlayingGame("medium", 1, 3, ExpiryEntities) EXCEPT
                     !.projectiles = <<StrayMissile(launch, target, age)>>])
NextStray == StrayUpdate
SpecStray == InitStray /\ [][NextStray]_vars

\* ------------------------------------------------------------------ Driving
\* Calls of PhysicsEngine.updateTankMovement on the tank of the player, with
\* the configuration Player.update passes, frame after frame.
DriveCalls == 7
DriveFrames == {100}
DriveInputs ==
    {NoInput, [NoInput EXCEPT !.forward = TRUE], [NoInput EXCEPT !.backward = TRUE]}
DriveRotations == {0, 100}

DriveConfig(p) ==
    [maxSpeed |-> p.maxSpeed, acceleration |-> p.acceleration,
     deceleration |-> p.deceleration, turnSpeed |-> p.turnSpeed, turnSpeedMoving |-> 150]

DriveCall ==
    /\ frame < DriveCalls
    /\ \E input \in DriveInputs, deltaTime \in DriveFrames :
          /\ player' = updateTankMovement([player EXCEPT !.input = input], input, deltaTime,
                                          DriveConfig(player))
          /\ frameDelta' = deltaTime
    /\ returned' = player'.currentSpeed
    /\ frame' = frame + 1
    /\ lastOp' = "updateTankMovement"
    /\ UNCHANGED <<state, score, lives, level, difficulty, secondPlayer, player2,
                   enemyManager, projectiles, particles, powerupManager, timers, lastTime,
                   inputs, hits, shooters, created>>

InitDrive == \E rotation \in DriveRotations :
                 StartsAs([MenuGame EXCEPT !.player.rotation = rotation])
NextDrive == DriveCall
SpecDrive == InitDrive /\ [][NextDrive]_vars

\* ------------------------------------------------------- Rays and spheres
\* Calls of Collision.rayVsSphere with the origin outside, on and inside the
\* sphere, the ray toward it, past it and away from it.
RayCalls == 1
RayOrigins == {<<x, y, z>> : x \in -3..3, y \in {0, 1}, z \in {-3, 0, 2}}
RayDirections ==
    {<<1, 0, 0>>, <<-1, 0, 0>>, <<0, 0, 1>>, <<0, -1, 0>>, <<1, 1, 0>>, <<1, 0, -1>>,
     <<-1, 1, 1>>}
RayCenters == {<<0, 0, 0>>, <<2, 1, 0>>}
RayRadii == {1, 2}

RayCall ==
    /\ frame < RayCalls
    /\ \E origin \in RayOrigins, direction \in RayDirections, center \in RayCenters,
          radius \in RayRadii :
          returned' = [origin |-> origin, direction |-> direction, center |-> center,
                       radius |-> radius,
                       result |-> rayVsSphere(origin, direction, center, radius)]
    /\ frame' = frame + 1
    /\ lastOp' = "rayVsSphere"
    /\ UNCHANGED <<state, score, lives, level, difficulty, secondPlayer, player, player2,
                   enemyManager, projectiles, particles, powerupManager, timers, lastTime,
                   frameDelta, inputs, hits, shooters, created>>

InitRay == StartsAs(MenuGame)
NextRay == RayCall
SpecRay == InitRay /\ [][NextRay]_vars

\* ------------------------------------------------------------ A spatial hash
\* A hash is made by Collision.createSpatialHash; entities are inserted, the
\* hash is cleared and queried.  `returned` holds the hash and, after a call,
\* its arguments and the list getNearby returned.
HashInserts == 2        \* calls of insert and clear in a run
HashQueries == 1        \* calls of getNearby in a run
HashCellSizes == {500, 1000}
HashEntities ==
    {[id |-> "a", position |-> <<0, 0, -1000>>], [id |-> "b", position |-> <<-1, 0, 999>>],
     [id |-> "d", position |-> <<-1500, 0, 250>>]}
HashPoints == {-1000, -1, 500}
HashRadii == {0, 400, 1000}

HashCalled(op) ==
    /\ lastOp' = op
    /\ UNCHANGED <<state, score, lives, level, difficulty, secondPlayer, player, player2,
                   enemyManager, projectiles, particles, powerupManager, timers, lastTime,
                   frameDelta, hits, shooters, created>>

HashCreate ==
    /\ lastOp = "init"
    /\ \E cellSize \in HashCellSizes :
          returned' = [hash |-> createSpatialHash(cellSize), args |-> <<>>, result |-> <<>>]
    /\ UNCHANGED <<frame, inputs>>
    /\ HashCalled("createSpatialHash")

HashInsert ==
    /\ lastOp # "init"
    /\ inputs < HashInserts
    /\ \E entity \in HashEntities :
          returned' = [hash |-> insert(returned.hash, entity), args |-> <<entity>>,
                       result |-> <<>>]
    /\ inputs' = inputs + 1
    /\ UNCHANGED frame
    /\ HashCalled("insert")

HashClear ==
    /\ lastOp # "init"
    /\ inputs < HashInserts
    /\ returned' = [hash |-> clear(returned.hash), args |-> <<>>, result |-> <<>>]
    /\ inputs' = inputs + 1
    /\ UNCHANGED frame
    /\ HashCalled("clear")

HashGetNearby ==
    /\ lastOp # "init"
    /\ frame < HashQueries
    /\ \E x \in HashPoints, z \in HashPoints, radius \in HashRadii :
          returned' = [hash |-> returned.hash, args |-> <<x, z, radius>>,
                       result |-> getNearby(returned.hash, x, z, radius)]
    /\ frame' = frame + 1
    /\ UNCHANGED inputs
    /\ HashCalled("getNearby")

InitHash == StartsAs(MenuGame)
NextHash == HashCreate \/ HashInsert \/ HashClear \/ HashGetNearby
SpecHash == InitHash /\ [][NextHash]_vars

\* ------------------------------------------------------ A player on its own
\* Calls of Player.takeDamage, Player.respawn and Player.update, with the
\* input set between the calls.
PlayerCalls == 5        \* calls of the methods of the player in a run

PlayerInputs ==
    {NoInput, [NoInput EXCEPT !.forward = TRUE],
     [NoInput EXCEPT !.backward = TRUE, !.left = TRUE, !.turretUp = TRUE]}
RespawnPositions == {<<0, 0, 0>>, <<-2000, 0, 1000>>}

Called(op) ==
    /\ frame < PlayerCalls
    /\ frame' = frame + 1
    /\ lastOp' = op
    /\ UNCHANGED <<state, score, lives, level, difficulty, secondPlayer, player2,
                   enemyManager, projectiles, particles, powerupManager, timers, lastTime,
                   frameDelta, inputs, hits, shooters, created>>

ApiTakeDamage ==
    \E r \in {PlayerTakeDamage(player)} :
        /\ player' = r.entity
        /\ returned' = r.killed
        /\ Called("takeDamage")

ApiRespawn ==
    \E position \in RespawnPositions :
        /\ player' = PlayerRespawn(player, position)
        /\ returned' = NULL
        /\ Called("respawn")

ApiUpdate ==
    \E input \in PlayerInputs :
        /\ player' = PlayerUpdate([player EXCEPT !.input = input], MaxDeltaTime, Obstacles,
                                  Mountains, <<>>, RndA.push)
        /\ returned' = NULL
        /\ Called("update")

InitPlayer == StartsAs(MenuGame)
NextPlayer == ApiTakeDamage \/ ApiRespawn \/ ApiUpdate
SpecPlayer == InitPlayer /\ [][NextPlayer]_vars

\* ------------------------------------------------------------------- Claims
EntityHits == {i \in 1..Len(hits) : hits[i].type = "entity"}

\* C1: a projectile never registers a hit on an entity whose alive flag is
\* false: every entity hit of an update had a live target when the
\* projectile-versus-entity check returned it.
C1_NoHitOnDeadEntity == \A i \in EntityHits : hits[i].targetAlive

\* The entity that fired a projectile of the given ownerId
FirerOf(ownerId) ==
    IF ownerId = "player_guided" THEN "player"
    ELSE IF ownerId = "player2_guided" THEN "player2"
    ELSE ownerId

\* C2: no projectile registers a hit on the entity that fired it, a guided
\* missile (ownerId = id + "_guided") included.
C2_NoHitOnFirer == \A i \in EntityHits : hits[i].target # FirerOf(hits[i].ownerId)

LiveShots(ownerId) ==
    {i \in 1..Len(projectiles) : projectiles[i].ownerId = ownerId /\ projectiles[i].alive}

\* C3: for every firer the pool holds at most one live projectile of its
\* identifier (the standard slot of a player, a tank or the UFO, the guided
\* slot of a player).
C3_OneLiveProjectilePerFirer ==
    \A i \in 1..Len(projectiles) : Cardinality(LiveShots(projectiles[i].ownerId)) <= 1

InRange(rotation) == rotation > -PI /\ rotation <= PI

\* C4: after construction and after every tick the rotation of every entity
\* (players, tanks, UFO, projectiles) lies in (-PI, PI].
C4_RotationInRange ==
    /\ InRange(player.rotation)
    /\ \A i \in 1..Len(player2) : InRange(player2[i].rotation)
    /\ \A i \in 1..Len(enemyManager.enemies) : InRange(enemyManager.enemies[i].rotation)
    /\ \A i \in 1..Len(enemyManager.ufo) : InRange(enemyManager.ufo[i].rotation)
    /\ \A i \in 1..Len(projectiles) : InRange(projectiles[i].rotation)

\* The particles the runs stand for, oldest first
RECURSIVE Expand(_)
Expand(runs) ==
    IF runs = <<>> THEN <<>>
    ELSE [i \in 1..runs[1].count |-> [age |-> runs[1].age, lifetime |-> runs[1].lifetime]]
         \o Expand(Tail(runs))

\* count new particles of a nominal lifetime scaled by the drawn factor
Burst(count, lifetime, factor) ==
    [i \in 1..count |-> [age |-> 0, lifetime |-> RDiv(lifetime * factor, 1000)]]

\* The particles a processed hit emits: an explosion of scale 1.5 for a hit
\* that destroyed its target, a spark for a hit on an obstacle
EmittedBy(hit, factor) ==
    IF hit.type # "entity" THEN Burst(10, 300, factor)
    ELSE IF hit.killed
         THEN Burst(45, 500, factor) \o Burst(30, 1500, factor) \o Burst(23, 800, factor)
         ELSE <<>>

RECURSIVE EmittedIn(_, _)
EmittedIn(hitList, factor) ==
    IF hitList = <<>> THEN <<>>
    ELSE EmittedBy(Head(hitList), factor) \o EmittedIn(Tail(hitList), factor)

Newest(list, n) == SubSeq(list, Max(1, Len(list) - n + 1), Len(list))
StillLives(particle) == particle.age < particle.lifetime

\* The particle list after an update: the newest maxParticles of the old
\* particles followed by the emitted ones, aged, the expired ones dropped
ExpectedParticles(old, hitList, factor, deltaTime) ==
    Let(Newest(Expand(old) \o EmittedIn(hitList, factor), maxParticles), LAMBDA kept :
    SelectSeq([i \in 1..Len(kept) |-> [kept[i] EXCEPT !.age = @ + deltaTime]], StillLives))

PlayingUpdate == lastOp' = "update" /\ state = "playing"

C6_Caps ==
    /\ Len(enemyManager.enemies) <= enemyManager.maxEnemies
    /\ Cardinality({i \in 1..Len(getAllEntities(enemyManager)) :
                       getAllEntities(enemyManager)[i].kind = "ufo"}) <= 1
    /\ Len(enemyManager.ufo) <= 1
    /\ Len(powerupManager.powerups) <= maxPowerups
    /\ ParticleCount(particles) <= maxParticles

C6_EvictionStep ==
    PlayingUpdate =>
        \E rnd \in {RndA, RndB} :
            Expand(particles') = ExpectedParticles(particles, hits', rnd.factor, MaxDeltaTime)

\* C6: in every state reached by spawns, ticks, nextLevel and startGame the
\* enemy list is no longer than maxEnemies, at most one UFO is live, the
\* power-up list is no longer than 3 and the particle list no longer than 500;
\* the particles an update leaves are the newest ones (the oldest are evicted
\* first).
C6_CollectionsCapped == []C6_Caps /\ [][C6_EvictionStep]_vars

\* An update has just destroyed enough targets to overflow the particle list
C6_Witness ==
    /\ lastOp = "update"
    /\ ParticleCount(particles) = maxParticles
    /\ 98 * Cardinality({i \in EntityHits : hits[i].killed}) > maxParticles
    /\ Len(enemyManager.enemies) < enemyManager.maxEnemies

\* The enemies as the enemy step of an update leaves them when it is given
\* the first player p
EnemiesGiven(p, rnd) ==
    IF isFreezeActive(powerupManager) THEN enemyManager
    ELSE EnemyManagerUpdate(enemyManager, MaxDeltaTime, p, Obstacles, Mountains, level, rnd)

C7_OrderStep ==
    PlayingUpdate =>
        \E rnd \in {RndA, RndB} :
        \E moved \in {PlayerUpdate(player, MaxDeltaTime, Obstacles, Mountains,
                                   getAllEntities(enemyManager), rnd.push)} :
        \E em \in {EnemiesGiven(moved, rnd)} :
            /\ player'.position = moved.position
            /\ player'.rotation = moved.rotation
            /\ \A i \in 1..Len(player2) :
                  player2'[i].position =
                      PlayerUpdate(player2[i], MaxDeltaTime, Obstacles, Mountains,
                                   getAllEntities(enemyManager), rnd.push).position
            /\ shooters' = IF isFreezeActive(powerupManager) THEN <<>>
                           ELSE SeqMap(LAMBDA e : e.id, ShootersOf(em))
            /\ \A i \in 1..Len(enemyManager'.enemies) :
                  \E j \in 1..Len(em.enemies) :
                      enemyManager'.enemies[i] = [em.enemies[j] EXCEPT !.shouldShoot = FALSE]
            /\ \A i \in 1..Len(projectiles') : projectiles'[i].age >= MaxDeltaTime
            /\ \A i \in 1..Len(particles') : particles'[i].age >= MaxDeltaTime

\* C7: an update in state PLAYING moves the players against the enemies as the
\* previous update left them, then runs the enemies (and creates their shots)
\* against the player as just moved, then moves every projectile, the new
\* shots included, and last ages every particle, the new ones included.
C7_FixedOrder == [][C7_OrderStep]_vars

\* A tank has fired in an update in which the player was moving
C7_Witness ==
    /\ lastOp = "update"
    /\ frame > 5
    /\ player.alive /\ player.currentSpeed # 0
    /\ \E k \in 1..Len(shooters), i \in 1..Len(enemyManager.enemies) :
          enemyManager.enemies[i].id = shooters[k]

\* The invulnerable flag of a player as the projectiles of the update see it
InvulnerableInTick(p) ==
    IF p.alive THEN PlayerInvulnerabilityStep(p, MaxDeltaTime).invulnerable ELSE p.invulnerable

\* The projectile is inside the circle and the height of the entity
Overlaps(projectile, entity) ==
    /\ pointVsCircle(projectile.position[1], projectile.position[3],
                     entity.position[1], entity.position[3], entity.collisionRadius)
    /\ projectile.position[2] >= entity.position[2]
    /\ projectile.position[2] <= entity.position[2] + entity.height

PlayerHits(hitList, id) ==
    {i \in 1..Len(hitList) : hitList[i].type = "entity" /\ hitList[i].target = id}

\* An invulnerable player is not hit and stays as alive as it was; a straight
\* projectile over it that hits nothing else stays in the pool
C8_Protected(p, after) ==
    InvulnerableInTick(p) =>
        /\ PlayerHits(hits', p.id) = {}
        /\ after.alive = p.alive
        /\ \A i \in 1..Len(projectiles) :
              \E moved \in {ProjectileUpdate(projectiles[i], MaxDeltaTime, <<>>)} :
                 projectiles[i].type = "normal" /\ moved.alive /\ Overlaps(moved, after)
                 /\ (\A h \in 1..Len(hits') : hits'[h].ownerId # moved.ownerId)
                 => \E j \in 1..Len(projectiles') : projectiles'[j] = moved

C8_Step ==
    PlayingUpdate =>
        /\ C8_Protected(player, player')
        /\ \A i \in 1..Len(player2) : C8_Protected(player2[i], player2'[i])
        /\ lives' = lives - Cardinality({i \in 1..Len(hits') :
                                            /\ hits'[i].type = "entity"
                                            /\ hits'[i].target \in {"player", "player2"}
                                            /\ hits'[i].killed})

\* C8: in an update a player that is invulnerable when the projectiles are
\* checked is not hit, is not killed and costs no life, and a projectile over
\* that player is not consumed by it.
C8_InvulnerableNotHit == [][C8_Step]_vars

\* A live shell is inside the circle of a player in its post-respawn window
C8_Witness ==
    /\ lastOp = "update"
    /\ player.alive /\ player.invulnerable
    /\ ~isActive(powerupManager, "shield")
    /\ \E j \in 1..Len(projectiles) : projectiles[j].alive /\ Overlaps(projectiles[j], player)

\* No sample point strictly between the two positions is inside a mountain,
\* and the sample points are at most 5 units apart
SightClear(from, to) ==
    LET d2 == Dist2(from, to)
        steps == LineOfSightSteps(d2)
    IN /\ 250000 * steps * steps >= d2
       /\ \A i \in 1..(steps - 1), m \in 1..Len(Mountains) :
             LET mountain == Mountains[m]
                 point == SamplePoint(from, to, i, steps)
                 mdx == point[1] - mountain.position[1]
                 mdz == point[2] - mountain.position[3]
             radius == (8 * mountain.scale) \div 10
             IN mdx * mdx + mdz * mdz >= radius * radius

C10_Step ==
    PlayingUpdate =>
        \A k \in 1..Len(shooters') :
            \/ Len(enemyManager.ufo) = 1 /\ enemyManager.ufo[1].id = shooters'[k]
            \/ \E i \in 1..Len(enemyManager.enemies) :
                  LET e == enemyManager.enemies[i]
                  IN /\ e.id = shooters'[k]
                     /\ player.alive
                     /\ e.shootTimer - MaxDeltaTime <= 0
                     /\ Abs(normalizeAngle(Atan2(player'.position[1] - e.position[1],
                                                 player'.position[3] - e.position[3])
                                           - e.rotation)) < AimTolerance
                     /\ SightClear(e.position, player'.position)

\* C10: a tank fires in an update only if the player is alive, its shootTimer
\* has run down, its heading is within 0.3 rad of the bearing of the player and
\* no sample point of the line of sight is inside a mountain.
C10_ShootOnlyWhenClear == [][C10_Step]_vars

\* A tank has just fired
C10_Witness ==
    /\ lastOp = "update"
    /\ \E k \in 1..Len(shooters), i \in 1..Len(enemyManager.enemies) :
          /\ enemyManager.enemies[i].id = shooters[k]
          /\ enemyManager.enemies[i].state = "shoot"

C5_CreateStep ==
    lastOp' = "createProjectile" /\ created' = created + 1 =>
        /\ Len(projectiles') = Min(Len(projectiles) + 1, maxProjectiles)
        /\ projectiles'[Len(projectiles')].ownerId = "shot_" \o ToString(created')
        /\ SubSeq(projectiles', 1, Len(projectiles') - 1) =
               IF Len(projectiles) = maxProjectiles THEN Tail(projectiles) ELSE projectiles

\* C5: after any calls of createProjectile and update the pool holds at most
\* maxProjectiles projectiles, and a creation on a full pool removes exactly
\* the oldest one, appends the new one and keeps the order of the others.
C5_PoolBounded == [](Len(projectiles) <= maxProjectiles) /\ [][C5_CreateStep]_vars

\* maxProjectiles + 1 creations have left maxProjectiles, without the first
C5_Witness ==
    /\ created = maxProjectiles + 1
    /\ frame = 0
    /\ Len(projectiles) = maxProjectiles
    /\ projectiles[1].ownerId = "shot_2"
    /\ projectiles[maxProjectiles].ownerId = "shot_" \o ToString(maxProjectiles + 1)

C9_Step ==
    /\ lastOp' = "takeDamage" =>
          IF player.invulnerable THEN returned' = FALSE /\ player' = player
          ELSE returned' = TRUE /\ ~player'.alive
    /\ lastOp' = "respawn" =>
          /\ player'.alive /\ player'.invulnerable
          /\ player'.invulnerabilityTime = 3000
          /\ player'.velocity = <<0, 0, 0>>
          /\ player'.turretPitch = 0 /\ player'.rotation = 0
    /\ ~player.alive /\ player'.alive => lastOp' = "respawn"

\* C9: takeDamage on an invulnerable player returns false and changes nothing,
\* on another player it clears alive and returns true; respawn sets alive and
\* invulnerable, the invulnerability time to 3.0 s, the velocity, the turret
\* pitch and the rotation to zero; a dead player becomes alive only by respawn.
C9_TakeDamageAndRespawn == [][C9_Step]_vars

\* takeDamage has just returned false on a respawned, invulnerable player
C9_Witness ==
    /\ lastOp = "takeDamage"
    /\ returned = FALSE
    /\ player.alive /\ player.invulnerable
\* The power-up types of which the update has activated the effect: without an
\* activation the remaining time of a type runs down or stays absent
Activated ==
    {t \in PowerUpTypes :
        powerupManager'.activePowerups[t] #
            (IF powerupManager.activePowerups[t] = 0 THEN 0
             ELSE Max(0, powerupManager.activePowerups[t] - frameDelta'))}

C11_Step ==
    PlayingUpdate /\ powerupManager.activePowerups["freeze"] > 0 =>
        /\ shooters' = <<>>
        /\ created' = created
        /\ enemyManager'.spawnTimer = enemyManager.spawnTimer
        /\ enemyManager'.nextId = enemyManager.nextId
        /\ Len(enemyManager'.ufo) = Len(enemyManager.ufo)
        /\ \A i \in 1..Len(enemyManager.ufo) :
              \A f \in {"id", "position", "rotation", "shootTimer", "shouldShoot"} :
                  enemyManager'.ufo[i][f] = enemyManager.ufo[i][f]
        /\ \A i \in 1..Len(enemyManager'.enemies) :
              \E j \in 1..Len(enemyManager.enemies) :
                  enemyManager'.enemies[i] = enemyManager.enemies[j]
        /\ \A i \in 1..Len(projectiles') :
              \E j \in 1..Len(projectiles) : projectiles'[i].ownerId = projectiles[j].ownerId

\* C11: an update that reaches the enemy phase with the freeze effect active
\* skips it: no tank and no UFO changes position, rotation, AI state, moveTimer
\* or shootTimer, the spawn timer stands still, no enemy and no UFO appears and
\* no enemy fires.
C11_FrozenEnemies == [][C11_Step]_vars

\* A frozen update has passed over a tank that was ready to fire while the
\* next enemy was due
C11_Witness ==
    /\ lastOp = "update"
    /\ state = "playing"
    /\ frame = 3
    /\ powerupManager.activePowerups["freeze"] = 0
    /\ shooters = <<>>
    /\ enemyManager.spawnTimer = 4900
    /\ \E i \in 1..Len(enemyManager.enemies) :
          enemyManager.enemies[i].shootTimer = 100 /\ enemyManager.enemies[i].state = "pursue"

C12_Step ==
    PlayingUpdate =>
        \A t \in PowerUpTypes :
            /\ powerupManager.activePowerups[t] > 0 =>
                  powerupManager'.activePowerups[t] < powerupManager.activePowerups[t]
            /\ isActive(powerupManager', t) = (powerupManager'.activePowerups[t] > 0)

\* C12: from one update of the power-up manager to the next the remaining
\* time of an active effect decreases, never increases, and a time that has
\* reached 0 is removed, after which isActive is false.
C12_DurationsDecrease == [][C12_Step]_vars

\* The power-up runs out of lifetime in the update that is being taken
Expiring(pu) == pu.age + frameDelta' >= pu.lifetime

\* The power-up is within collection range of the position p
InReach(pu, p) == Dist2(pu.position, p) < (150 + 200) * (150 + 200)

\* The power-up is in the list at the same place
Lying(pu, list) ==
    \E j \in 1..Len(list) : list[j].position = pu.position /\ list[j].type = pu.type

C13_Step ==
    PlayingUpdate =>
        /\ \A t \in Activated :
              \E i \in 1..Len(powerupManager.powerups) :
                  LET pu == powerupManager.powerups[i]
                  IN pu.type = t /\ ~Expiring(pu) /\ InReach(pu, player'.position)
        /\ \A i \in 1..Len(powerupManager.powerups) :
              LET pu == powerupManager.powerups[i]
              IN IF Expiring(pu) \/ InReach(pu, player'.position)
                 THEN ~Lying(pu, powerupManager'.powerups)
                 ELSE \E j \in 1..Len(powerupManager'.powerups) :
                         powerupManager'.powerups[j] = [pu EXCEPT !.age = @ + frameDelta']
        /\ \A j \in 1..Len(powerupManager'.powerups) : ~powerupManager'.powerups[j].collected

\* C13: a power-up that reaches its lifetime in an update leaves the list
\* without activating its effect, also with the player in range; an effect is
\* activated only by a power-up in range that has not expired, and a collected
\* or expired power-up leaves the list in the same update.
C13_ExpiryWithoutEffect == [][C13_Step]_vars

\* The xray power-up has expired in the update that brought the player within
\* its range, and the shield beside it was collected
C13_Witness ==
    /\ lastOp = "update"
    /\ frame = 1
    /\ player.alive
    /\ InReach([position |-> <<0, 0, 400>>], player.position)
    /\ powerupManager.powerups = <<>>
    /\ powerupManager.activePowerups["xray"] = 0
    /\ powerupManager.activePowerups["shield"] = 9900

C14_Step ==
    PlayingUpdate /\ ~player'.alive =>
        /\ Activated = {}
        /\ \A i \in 1..Len(powerupManager.powerups) :
              LET pu == powerupManager.powerups[i]
              IN ~Expiring(pu) => Lying(pu, powerupManager'.powerups)

\* C14: an update in which the player is dead when the power-ups are reached
\* collects no power-up and activates no effect, also for a power-up within
\* collection range of the position of the dead player.
C14_DeadPlayerCollectsNothing == [][C14_Step]_vars

\* The position is inside the box of an obstacle: the half extent of the
\* footprint is size for a pyramid and size / 2 for a cube
InsideObstacle(position) ==
    \E i \in 1..Len(Obstacles) :
        LET o == Obstacles[i]
            halfX == IF o.type = "pyramid" THEN 2 * o.size[1] ELSE o.size[1]
            halfZ == IF o.type = "pyramid" THEN 2 * o.size[3] ELSE o.size[3]
        IN /\ 2 * Abs(position[1] - o.position[1]) <= halfX
           /\ 2 * Abs(position[3] - o.position[3]) <= halfZ
           /\ position[2] >= 0 /\ position[2] <= o.size[2]

\* The projectile is over an entity that is not its firer and not invulnerable
OverEligible(p, entities) ==
    \E i \in 1..Len(entities) :
        /\ entities[i].id # p.ownerId
        /\ ~("invulnerable" \in DOMAIN entities[i] /\ entities[i].invulnerable)
        /\ Overlaps(p, entities[i])

\* The reasons for which the update of dt ms ends the projectile p, which
\* moves as far as moved
Ends(p, moved, dt, entities) ==
    \/ p.age + dt >= p.lifetime
    \/ Abs(moved.position[1]) > TerrainSize \div 2 + 1000
    \/ Abs(moved.position[3]) > TerrainSize \div 2 + 1000
    \/ moved.position[2] < 0
    \/ p.type = "ballistic" /\ moved.position[2] <= 0
    \/ InsideObstacle(moved.position)
    \/ OverEligible(moved, entities)

C15_Step ==
    lastOp' = "update" =>
        /\ \A i \in 1..Len(projectiles) :
              \E moved \in {ProjectileMove([projectiles[i] EXCEPT !.age = @ + MaxDeltaTime],
                                            MaxDeltaTime, ShotEntities)} :
                 (\E j \in 1..Len(projectiles') :
                      projectiles'[j].ownerId = projectiles[i].ownerId)
                    <=> ~Ends(projectiles[i], moved, MaxDeltaTime, ShotEntities)
        /\ \A j \in 1..Len(projectiles') :
              /\ projectiles'[j].alive
              /\ \E i \in 1..Len(projectiles) : projectiles[i].ownerId = projectiles'[j].ownerId

\* C15: an update ends a live projectile exactly when its age has reached its
\* lifetime, it has left the terrain bounds enlarged by 10 units, it is below
\* the ground (a ballistic one: on the ground), or it is inside the box of an
\* obstacle or over an entity other than its firer that is not invulnerable;
\* a projectile that has ended is gone for good.
C15_EndOfProjectile ==
    [](\A i \in 1..Len(projectiles) : projectiles[i].alive) /\ [][C15_Step]_vars

\* Every kind of shot was created and updated twice: the shots that expired,
\* left the terrain, went into the ground, landed, met the obstacle and met
\* the tank are gone, the others fly on
C15_Witness ==
    /\ lastOp = "update"
    /\ created = Len(ShotConfigs)
    /\ frame = 2
    /\ [j \in 1..Len(projectiles) |-> projectiles[j].ownerId]
          = <<"shot_7", "enemy_1", "player_guided">>
    /\ Overlaps(projectiles[1], ShotEntities[1])
    /\ Overlaps(projectiles[2], ShotEntities[2])

C16_Step ==
    lastOp' = "update" =>
        /\ frameDelta' <= 100
        /\ lastTime' - lastTime <= 100 => frameDelta' = lastTime' - lastTime
        /\ state = "playing" =>
              /\ powerupManager'.spawnTimer = powerupManager.spawnTimer + frameDelta'
              /\ enemyManager'.spawnTimer = enemyManager.spawnTimer + frameDelta'

\* C16: whatever the timestamps of the frames, the frame time an update uses
\* is at most 0.1 s, and it is the time since the previous frame when that is
\* at most 100 ms.
C16_DeltaTimeCapped == [][C16_Step]_vars

\* A frame 250 ms after the previous one has advanced a game by 100 ms
C16_Witness ==
    /\ lastOp = "update"
    /\ state = "playing"
    /\ frame = 2
    /\ lastTime = 16 + 250
    /\ frameDelta = 100
    /\ powerupManager.spawnTimer = 16 + 100

\* The pending callbacks without the time they have left, which runs down
\* with the clock and not by the update
Pending(list) == [i \in 1..Len(list) |-> [stage |-> list[i].stage, target |-> list[i].target]]

C17_Step ==
    /\ lastOp' = "update" /\ state # "playing" =>
          /\ UNCHANGED <<state, score, lives, level, difficulty, secondPlayer, player, player2,
                         enemyManager, projectiles, particles, powerupManager, created>>
          /\ Pending(timers') = Pending(timers)
          /\ hits' = <<>> /\ shooters' = <<>>
    /\ state' = "paused" /\ state # "paused" => state = "playing" /\ lastOp' = "KeyP"
    /\ lastOp' = "KeyP" =>
          state' = (IF state = "playing" THEN "paused"
                    ELSE IF state = "paused" THEN "playing" ELSE state)
    /\ state = "paused" /\ state' # "paused" => lastOp' = "KeyP"

LiveEnemies(em) ==
    {em.enemies[i] : i \in {j \in 1..Len(em.enemies) : em.enemies[j].alive}}
        \cup {em.ufo[i] : i \in {j \in 1..Len(em.ufo) : em.ufo[j].alive}}

\* C18: the key E creates a guided missile only for a target that is alive at
\* the launch and that no live tank or UFO is nearer to the player on the
\* ground than; with no live tank and no live UFO it creates no missile
C18_Step ==
    lastOp' \in {"KeyE", "playerShootGuided"} =>
        /\ LiveEnemies(enemyManager) = {} => projectiles' = projectiles
        /\ projectiles' # projectiles =>
              \E m \in {projectiles'[Len(projectiles')]} :
                 /\ m.type = "guided"
                 /\ m.ownerId = GuidedOwner(player)
                 /\ \E t \in LiveEnemies(enemyManager) :
                       /\ t.id = m.target
                       /\ \A e \in LiveEnemies(enemyManager) :
                             Dist2(player.position, t.position)
                                 <= Dist2(player.position, e.position)

C18_NearestLiveTarget == [][C18_Step]_vars

\* A missile has just been launched at the nearer of two live tanks, which is
\* not the first of the list
C18_Witness ==
    /\ lastOp = "playerShootGuided"
    /\ Len(projectiles) >= 1
    /\ projectiles[Len(projectiles)].type = "guided"
    /\ Len(enemyManager.enemies) >= 2
    /\ enemyManager.enemies[1].alive
    /\ \E i \in 2..Len(enemyManager.enemies) :
          /\ enemyManager.enemies[i].alive
          /\ enemyManager.enemies[i].id = projectiles[Len(projectiles)].target
          /\ Dist2(player.position, enemyManager.enemies[i].position)
                < Dist2(player.position, enemyManager.enemies[1].position)

\* The probe at the given x and z is within the footprint of the obstacle
\* inflated by the radius: the half extent is size for a pyramid, size / 2
\* for a cube
WithinFootprint(x, z, radius, o) ==
    LET extentX == IF o.type = "pyramid" THEN 2 * o.size[1] ELSE o.size[1]
        extentZ == IF o.type = "pyramid" THEN 2 * o.size[3] ELSE o.size[3]
    IN /\ 2 * Abs(x - o.position[1]) <= extentX + 2 * radius
       /\ 2 * Abs(z - o.position[3]) <= extentZ + 2 * radius

Footprints(x, z, radius, obstacles) ==
    {i \in 1..Len(obstacles) : WithinFootprint(x, z, radius, obstacles[i])}

\* C19: checkObstacleCollision returns an obstacle exactly when the x and z of
\* the probe are within the footprint of an obstacle inflated by the radius,
\* and the obstacle it returns is the first such one, where the half extent of
\* the footprint is size for a pyramid and size / 2 for a cube; a projectile
\* hits an obstacle exactly when it is within such a footprint, not inflated,
\* and neither below the ground nor above the obstacle
C19_Footprints ==
    /\ lastOp = "checkObstacleCollision" =>
          \E inside \in {Footprints(returned.position[1], returned.position[3],
                                     returned.radius, returned.obstacles)} :
             /\ returned.found <=> inside # {}
             /\ returned.obstacle # 0 <=> inside # {}
             /\ returned.obstacle # 0 =>
                   /\ returned.obstacle \in inside
                   /\ \A i \in inside : returned.obstacle <= i
    /\ lastOp = "checkCollisions" =>
          \E inside \in {{i \in Footprints(returned.position[1], returned.position[3], 0,
                                            returned.obstacles) :
                              /\ returned.position[2] >= 0
                              /\ returned.position[2] <= returned.obstacles[i].size[2]}} :
             /\ returned.hit.type = "obstacle" <=> inside # {}
             /\ returned.hit.type = "obstacle" =>
                   \E i \in inside :
                      /\ returned.hit.target = returned.obstacles[i].id
                      /\ \A j \in inside : i <= j
             /\ returned.hit.type # "obstacle" => returned.hit = NoHit

\* A probe of radius 0 at 3 units along x from the centre of a cube and of a
\* pyramid of size 4 has missed the cube and hit the pyramid
C19_Witness ==
    /\ lastOp = "checkObstacleCollision"
    /\ returned.position = <<300, 0, 0>>
    /\ returned.radius = 0
    /\ Len(returned.obstacles) = 2
    /\ returned.obstacles[1].type = "cube"
    /\ returned.obstacles[1].size[1] = 400
    /\ returned.obstacles[1].position = <<0, 0, 0>>
    /\ returned.obstacles[2].type = "pyramid"
    /\ returned.obstacles[2].size[1] = 400
    /\ returned.obstacles[2].position = <<0, 0, 0>>
    /\ returned.obstacle = 2

\* The cap of the attempts of a search
AttemptCap(kind) ==
    CASE kind = "generateObstacles" -> 20
      [] kind = "getRandomSpawnPosition" -> 50
      [] kind = "getEdgeSpawnPosition" -> 30

\* The position is on the ring 15 units inside the bounds
OnEdgeRing(position) ==
    /\ Abs(position[1]) <= TerrainSize \div 2 - 1500
    /\ Abs(position[3]) <= TerrainSize \div 2 - 1500
    /\ Abs(position[1]) = TerrainSize \div 2 - 1500
          \/ Abs(position[3]) = TerrainSize \div 2 - 1500

C20_Search ==
    lastOp \in SearchKinds =>
        /\ returned.attempts <= AttemptCap(returned.kind)
        /\ Len(returned.tried) <= AttemptCap(returned.kind)
        /\ returned.done =>
              /\ Len(returned.tried) >= 1
              /\ returned.position = returned.tried[Len(returned.tried)]
              /\ returned.position \in Int \X Int \X Int
              /\ returned.kind = "getEdgeSpawnPosition" => OnEdgeRing(returned.position)

\* C20: a position search tries at most 20 positions in generateObstacles, 50
\* in getRandomSpawnPosition and 30 in getEdgeSpawnPosition, and every search
\* that has begun ends; it returns a position, the last one it tried, also
\* when it gave up; what getEdgeSpawnPosition returns is on the ring 15 units
\* inside the bounds
C20_SearchesEnd == []C20_Search /\ (Searching ~> SearchOver)

\* The search of an edge position has given up after 30 positions and returned
\* the last, which is in front of the viewer or taken
C20_Witness ==
    /\ SearchOver
    /\ returned.kind = "getEdgeSpawnPosition"
    /\ returned.attempts = 30
    /\ Len(returned.tried) = 30
    /\ returned.position = EdgePosition(returned.draws[2].side, returned.draws[2].along)
    /\ ~FarFromAll(returned.position, returned.avoidPositions)

\* The update leaves the chassis where the same update without the turret keys
\* leaves it
C21_Step ==
    lastOp' = "update" =>
        \E still \in {PlayerUpdate([player EXCEPT !.input = [player'.input EXCEPT
                                                                !.turretUp = FALSE,
                                                                !.turretDown = FALSE]],
                                    frameDelta', Obstacles, Mountains, <<>>, RndA.push)} :
           /\ player'.rotation = still.rotation
           /\ player'.position = still.position
           /\ player'.velocity = still.velocity
           /\ ~player'.input.left /\ ~player'.input.right => player'.rotation = player.rotation

\* C21: after every update of the player the turret pitch is between -pi/12
\* and pi/4, whatever turret keys are held and however long the frames are,
\* and the turret keys do not change the rotation of the chassis
C21_TurretPitchInRange ==
    /\ [](-26 <= player.turretPitch /\ player.turretPitch <= 79)
    /\ [][C21_Step]_vars

\* The turret has been raised to its upper stop while the chassis turned
C21_Witness ==
    /\ lastOp = "update"
    /\ player.turretPitch = 79
    /\ player.input.turretUp
    /\ player.input.left
    /\ player.rotation # 0

\* C22: clamping a position to the bounds a second time changes nothing, and
\* the clamped position is within the bounds at the same margin whenever the
\* margin is at most half the size of the terrain
C22_ClampIdempotent ==
    lastOp = "clampToBounds" =>
        /\ returned.twice = returned.once
        /\ returned.once[2] = returned.position[2]
        /\ 2 * returned.margin <= TerrainSize =>
              /\ returned.inBounds
              /\ Abs(returned.once[1]) <= TerrainSize \div 2 - returned.margin
              /\ Abs(returned.once[3]) <= TerrainSize \div 2 - returned.margin

\* C22 as stated: for every margin the clamped position is within the bounds
C22_ClampedInBounds ==
    lastOp = "clampToBounds" => returned.twice = returned.once /\ returned.inBounds

\* A position outside two sides has been brought to the corner at margin 10
C22_Witness ==
    /\ lastOp = "clampToBounds"
    /\ returned.position = <<10001, 150, -12000>>
    /\ returned.margin = 1000
    /\ returned.once = <<9000, 150, -9000>>
    /\ returned.twice = <<9000, 150, -9000>>
    /\ returned.inBounds

\* The target of the call is out of range: v^4 - g (g d^2 + 2 dy v^2) < 0 with
\* g = 9.8, in whole units, times 100
OutOfRange(r) ==
    LET v == r.speed \div 10
        x == (r.target[1] - r.origin[1]) \div 100
        y == (r.target[2] - r.origin[2]) \div 100
        z == (r.target[3] - r.origin[3]) \div 100
    IN 100 * v * v * v * v < 9604 * (x * x + z * z) + 1960 * y * v * v

\* The velocity, less the bias on its vertical component, has the given speed
\* to within two tenths and does not point away from the target on the ground
Launched(r, bias) ==
    LET vx == r.shot.velocity[1]
        vy == r.shot.velocity[2] - bias
        vz == r.shot.velocity[3]
    IN /\ ~r.shot.nan
       /\ Abs(Sqrt(vx * vx + vy * vy + vz * vz) - r.speed) <= 2
       /\ vx * (r.target[1] - r.origin[1]) >= 0
       /\ vz * (r.target[3] - r.origin[3]) >= 0
       /\ r.speed > 0 /\ r.target[1] # r.origin[1] => vx # 0

\* C23: calculateBallisticShot shoots straight at the target, with 5 added to
\* the vertical component, exactly when the discriminant is negative, and
\* otherwise returns the low trajectory: a velocity of the given speed towards
\* the target, not steeper than 45 degrees for a target that is not higher
C23_BallisticShot ==
    lastOp = "calculateBallisticShot" =>
        /\ returned.shot.branch = "straight" <=> OutOfRange(returned)
        /\ returned.shot.branch = "straight" =>
              /\ Launched(returned, 50)
              /\ (returned.shot.velocity[2] - 50) * (returned.target[2] - returned.origin[2]) >= 0
        /\ returned.shot.branch = "low" =>
              /\ Launched(returned, 0)
              /\ returned.target[2] <= returned.origin[2] =>
                    returned.shot.velocity[2] * returned.shot.velocity[2]
                        <= returned.shot.velocity[1] * returned.shot.velocity[1]
                             + returned.shot.velocity[3] * returned.shot.velocity[3]
        /\ returned.origin = <<0, 0, 0>> /\ returned.target = <<5000, 0, 0>>
               /\ returned.speed = 100 =>
              returned.shot.branch = "straight" /\ returned.shot.velocity[2] > 0
        /\ returned.origin = <<0, 0, 0>> /\ returned.target = <<1000, 0, 0>>
               /\ returned.speed = 300 =>
              /\ returned.shot.branch = "low"
              /\ returned.shot.velocity[1] > 0
              /\ returned.shot.velocity[2] > 0

\* The direction from the missile to the aim point of its target, 1.5 above
\* the position of the target, in thousandths
ToAimPoint(m, target) ==
    Normalize(<<target.position[1] - m.position[1],
                target.position[2] + 150 - m.position[2],
                target.position[3] - m.position[3]>>)

\* The sine of the angle between two directions given in thousandths, in
\* thousandths: the length of their cross product
SineBetween(a, b) ==
    LET cx == RDiv(a[2] * b[3] - a[3] * b[2], 1000)
        cy == RDiv(a[3] * b[1] - a[1] * b[3], 1000)
        cz == RDiv(a[1] * b[2] - a[2] * b[1], 1000)
    IN Sqrt(cx * cx + cy * cy + cz * cz)

\* The angle between the velocity of the missile and the direction to the
\* aim point is below 0.05 rad: its sine is below 0.05 and it is acute
OnTarget(m, target) ==
    \E heading \in {Normalize(m.velocity)}, aim \in {ToAimPoint(m, target)} :
        /\ SineBetween(heading, aim) < 50
        /\ heading[1] * aim[1] + heading[2] * aim[2] + heading[3] * aim[3] > 0

\* C24: once a missile of turn rate 3.5 has been stepped at 60 frames per
\* second for 1 / 3.5 s or longer towards a live target that stands still, its
\* velocity points at the aim point of the target to within 0.05 rad
C24_MissileConverges ==
    lastOp = "updateGuidedMissile" /\ frame * frameDelta * 350 >= 100000 =>
        OnTarget(projectiles[1], enemyManager.enemies[1])

\* The hits of the last update that destroyed the player `id`
Deaths(hitList, id) ==
    {i \in 1..Len(hitList) :
        hitList[i].type = "entity" /\ hitList[i].target = id /\ hitList[i].killed}

\* The pending respawn callbacks of the player `id`
Respawns(list, id) == {i \in 1..Len(list) : list[i].target = id}

PlayerOf(id) == IF id = "player" THEN <<player>> ELSE player2

\* An update takes one life for each player it destroys and starts the
\* respawn sequence of one that leaves a life; a player that was dead takes no
\* life and starts no respawn sequence; no other handler takes a life, and
\* Game.startGame sets the lives of the difficulty
C25_Step ==
    /\ lives' # lives =>
          \/ lastOp' = "update"
          \/ /\ state' = "playing" /\ score' = 0 /\ level' = 1
             /\ lives' = DifficultySettings[difficulty'].startingLives
    /\ lastOp' = "update" =>
          /\ lives' = lives - Cardinality(Deaths(hits', "player"))
                             - Cardinality(Deaths(hits', "player2"))
          /\ \A id \in {"player", "player2"} :
                /\ Cardinality(Deaths(hits', id)) <= 1
                /\ Deaths(hits', id) # {} =>
                      /\ PlayerOf(id)[1].alive
                      /\ Cardinality(Respawns(timers', id)) <=
                             Cardinality(Respawns(timers, id)) + 1
                /\ Deaths(hits', id) = {} =>
                      Cardinality(Respawns(timers', id)) = Cardinality(Respawns(timers, id))

\* C25: the death of a player takes exactly one life; from the hit that
\* destroys a player to the respawn of that player no further life is taken
\* and no further respawn is scheduled on its account; the number of lives is
\* never negative
C25_OneLifePerDeath == [](lives >= 0) /\ [][C25_Step]_vars

\* The step is a call of Game.startGame
Restarts ==
    /\ state' = "playing" /\ score' = 0 /\ level' = 1
    /\ lives' = DifficultySettings[difficulty'].startingLives

C26_Step ==
    /\ lastOp' = "update" /\ lives' < lives /\ lives' <= 0 => state' = "game_over"
    /\ state = "game_over" /\ state' # "game_over" => Restarts

\* C26: an update that takes the last life leaves the game in GAME_OVER, also
\* when the last enemy is destroyed in the same update, and the game stays in
\* GAME_OVER until it is started again
C26_GameOverStays == [][C26_Step]_vars

\* The enemies that the hits of an update destroyed
Destroyed(hitList) ==
    {hitList[i].target : i \in {j \in 1..Len(hitList) :
        /\ hitList[j].type = "entity"
        /\ hitList[j].target \notin {"player", "player2"}
        /\ hitList[j].killed}}

\* The UFO among them
DestroyedUfo(hitList, em) == {id \in Destroyed(hitList) : \E i \in 1..Len(em.ufo) : em.ufo[i].id = id}

\* Only an update changes the score of a game, by 100 for each tank and 500
\* for each UFO destroyed in it, counted once
C27_Step ==
    /\ score' # score => lastOp' = "update" \/ Restarts
    /\ lastOp' = "update" =>
          score' = score + 100 * Cardinality(Destroyed(hits') \ DestroyedUfo(hits', enemyManager))
                         + 500 * Cardinality(DestroyedUfo(hits', enemyManager))

\* C27: during a game the score never decreases and changes only by the
\* points of a destroyed enemy, 100 for a tank and 500 for the UFO, which
\* each enemy gives once, also when several projectiles hit it in one update
C27_ScoreOncePerEnemy == [][C27_Step]_vars

\* A respawn callback changes a player only in a game that is being played
\* and only a player that is dead, as it was when the callback was scheduled
C28_Step ==
    lastOp' = "respawn" =>
        /\ player' # player => state = "playing" /\ ~player.alive
        /\ player2' # player2 => state = "playing" /\ ~player2[1].alive

\* C28: the respawn callback scheduled at the death of a player acts only in
\* the game and the state in which it was scheduled: in a game that is paused,
\* over or started anew in the meantime it does not move the player, set it
\* alive or renew its invulnerability
C28_RespawnInItsGame == [][C28_Step]_vars

\* C29: from a respawn until 3 s of simulated time have passed the player is
\* invulnerable, whatever shield effect is active or runs out in that time
C29_InvulnerableAfterRespawn ==
    timers = <<>> /\ lastTime < InvulnerabilityDuration => player.alive /\ player.invulnerable

\* A respawned player without a shield effect, protected 2.9 s after the
\* respawn
C29_Witness ==
    /\ timers = <<>> /\ lastOp = "update"
    /\ lastTime = InvulnerabilityDuration - 100
    /\ ~isActive(powerupManager, "shield")
    /\ player.invulnerable /\ player.invulnerabilityTime = 100

\* Game.update up to the end of the hit loop, before the cleanup
Struck(dt, rnd) ==
    HitPhase(ProjectilePhase(EnemyPhase(Player2Phase(PlayerPhase(Game, dt, rnd), dt, rnd),
                                        dt, rnd), dt), rnd)

\* The tanks of a list with the given alive flag
TanksWith(enemies, flag) ==
    {enemies[i].id : i \in {j \in 1..Len(enemies) : enemies[j].alive = flag}}

\* In an update of a game that is played, the tanks that the hits destroy are
\* still in the list, dead, when the hit loop ends, and the cleanup that
\* follows leaves exactly the live ones
C30_Step ==
    PlayingUpdate =>
        \E rnd \in {RndA, RndB} :
        \E g \in {Struck(frameDelta', rnd)} :
            /\ g.hits = hits'
            /\ Destroyed(hits') \ DestroyedUfo(hits', enemyManager)
                  = TanksWith(g.enemyManager.enemies, FALSE)
            /\ enemyManager'.enemies = SelectSeq(g.enemyManager.enemies, IsAlive)

\* C30: what is dead is removed at the end of the pass of its manager: when
\* ProjectileManager.update has returned the pool holds no dead projectile; a
\* tank destroyed by a hit stays in the list, dead, until removeDeadEnemies
\* runs after the hit loop of the update, and then the list holds no dead tank
C30_LazyRemoval ==
    /\ [](\A i \in 1..Len(projectiles) : projectiles[i].alive)
    /\ [](\A i \in 1..Len(enemyManager.enemies) : enemyManager.enemies[i].alive)
    /\ [][C30_Step]_vars

\* An update in which a shell ended in a tank, which is gone from the list,
\* while another tank lives on
C30_Witness ==
    /\ lastOp = "update"
    /\ \E id \in Destroyed(hits) :
          /\ \E i \in 1..Len(hits) : hits[i].target = id /\ hits[i].ownerId = "player"
          /\ id \notin TanksWith(enemyManager.enemies, TRUE)
    /\ TanksWith(enemyManager.enemies, TRUE) # {}
    /\ TanksWith(enemyManager.enemies, FALSE) = {}
    /\ \A i \in 1..Len(projectiles) : projectiles[i].ownerId # "player"

\* The pool holds a projectile of the owner
InPool(owner) == \E i \in 1..Len(projectiles) : projectiles[i].ownerId = owner

\* C31: while the updates of a game in play go on, every projectile leaves
\* the pool, at the latest in the update in which its age reaches its
\* lifetime, 5 s or the 8 s of a guided missile; so does a guided missile
\* whose target is null or dead
C31_ProjectilesExpire ==
    /\ [](\A i \in 1..Len(projectiles) : projectiles[i].age < projectiles[i].lifetime)
    /\ \A owner \in ExpiryOwners : InPool(owner) ~> ~InPool(owner)

\* The guided missile without a target is gone after the update in which it
\* turned 8 s old, while the missile whose target was removed from the game,
\* 0.1 s younger, still flies
C31_Witness ==
    /\ lastOp = "update" /\ lastTime = 300
    /\ ~InPool("player_guided") /\ InPool("player2_guided")
    /\ \E i \in 1..Len(projectiles) : projectiles[i].age = 7900

\* The tank of the list with the given id, as a sequence of at most one
TankOf(em, id) == SelectSeq(em.enemies, LAMBDA e : e.id = id)

\* An update in which the enemies run: the game is played and not frozen
EnemiesRun == PlayingUpdate /\ ~isFreezeActive(powerupManager)

\* An update of the enemies with the player dead leaves every tank in state
\* wander and none firing; a tank is in state pursue or shoot after an update
\* that it did not begin in that state only if the player was alive
C32_Step ==
    EnemiesRun =>
        /\ ~player.alive =>
              /\ shooters' = <<>>
              /\ \A i \in 1..Len(enemyManager'.enemies) :
                    /\ enemyManager'.enemies[i].state = "wander"
                    /\ ~enemyManager'.enemies[i].shouldShoot
        /\ \A i \in 1..Len(enemyManager'.enemies) :
              \E after \in {enemyManager'.enemies[i]} :
                  /\ after.state \in {"pursue", "shoot"}
                  /\ \A j \in 1..Len(TankOf(enemyManager, after.id)) :
                        TankOf(enemyManager, after.id)[j].state # after.state
                  => player.alive

\* C32: the AI of a tank that runs while the player is dead leaves the tank
\* in state wander and does not set shouldShoot; the states pursue and shoot
\* are entered only in an update in which the player is alive
C32_WanderWhenPlayerDead == [][C32_Step]_vars

\* The player is dead and a tank that was in state shoot before the last
\* update is in state wander
C32_Witness ==
    /\ lastOp = "update" /\ state = "playing" /\ ~player.alive
    /\ ~isFreezeActive(powerupManager)
    /\ \E i \in 1..Len(enemyManager.enemies) :
          /\ enemyManager.enemies[i].state = "wander"
          /\ enemyManager.enemies[i].shootTimer > 1000
          /\ enemyManager.enemies[i].shootTimer < enemyManager.enemies[i].shootCooldown

\* The tanks of the list are the same before and after the step
SameTanks ==
    /\ Len(enemyManager'.enemies) = Len(enemyManager.enemies)
    /\ \A j \in 1..Len(enemyManager.enemies) :
          enemyManager'.enemies[j].id = enemyManager.enemies[j].id

\* The list of tanks as the update of tank k finds it: the tanks before it have
\* been updated, the others not yet
TanksFoundBy(k) ==
    [j \in 1..Len(enemyManager.enemies) |->
        IF j < k THEN enemyManager'.enemies[j] ELSE enemyManager.enemies[j]]

\* Entity e overlaps a live tank of the list other than itself
TouchesTank(e, list) ==
    \E j \in 1..Len(list) :
        /\ list[j].id # e.id /\ list[j].alive
        /\ circleVsCircle(e.position[1], e.position[3], e.collisionRadius,
                          list[j].position[1], list[j].position[3], list[j].collisionRadius)

\* Tank k is in state shoot before and after the step
StaysShooting(k) ==
    /\ k <= Len(enemyManager'.enemies)
    /\ enemyManager.enemies[k].alive
    /\ enemyManager.enemies[k].state = "shoot"
    /\ enemyManager'.enemies[k].state = "shoot"

C33_Step ==
    EnemiesRun /\ SameTanks =>
        \A k \in 1..Len(enemyManager.enemies) :
            /\ StaysShooting(k)
            /\ ~TouchesTank(enemyManager.enemies[k], TanksFoundBy(k))
            => enemyManager'.enemies[k].position = enemyManager.enemies[k].position

\* C33 (amended): a tank that is in state shoot before and after an update and
\* that no other live tank overlaps when its update runs has the same position
\* after the update as before
C33_ShooterStandsUnlessPushed == [][C33_Step]_vars

\* A tank that has fired stands where it stood at the start, two updates later
C33_Witness ==
    /\ lastOp = "update" /\ frame >= 2 /\ player.alive
    /\ \E k \in 1..Len(enemyManager.enemies) :
          /\ enemyManager.enemies[k].id = "enemy_4"
          /\ enemyManager.enemies[k].state = "shoot"
          /\ enemyManager.enemies[k].position = <<0, 0, -5000>>

\* C33 as stated: every tank that is in state shoot before and after an update
\* has the same position after it as before
C33_ShooterStands ==
    [][EnemiesRun =>
          \A k \in 1..Len(enemyManager.enemies) :
              StaysShooting(k)
              => enemyManager'.enemies[k].position = enemyManager.enemies[k].position]_vars

\* The tank with the given id fired in the last update
Fired(id) == lastOp = "update" /\ \E k \in 1..Len(shooters) : shooters[k] = id

\* The time between two shots of a tank at the level of the game
ShootInterval(e) == Max(1000, e.shootCooldown - level * 200)

\* An update in which a tank fires sets its shootTimer to the interval, creates
\* one projectile for each enemy that fires, which the projectiles' update of
\* the same tick has aged by one frame, and leaves no flag set
C34_Step ==
    EnemiesRun /\ SameTanks =>
        /\ created' = created + Len(shooters')
        /\ \A k \in 1..Len(enemyManager.enemies) :
              \E before \in {enemyManager.enemies[k]}, after \in {enemyManager'.enemies[k]} :
                  /\ ~after.shouldShoot
                  /\ (\E j \in 1..Len(shooters') : shooters'[j] = after.id) =>
                        /\ after.shootTimer = ShootInterval(before)
                        /\ Len(SelectSeq(shooters', LAMBDA id : id = after.id)) = 1
                        /\ hits' = <<>> =>
                              Len(SelectSeq(projectiles', LAMBDA p :
                                     p.ownerId = after.id /\ p.age = frameDelta')) = 1

\* C34: a tank that sets shouldShoot has its shootTimer set to
\* max(1, shootCooldown - 0.2 * level); it does not fire again before that much
\* simulated time has passed; each setting of the flag creates one projectile
\* in the same update, and the flag is cleared in it
C34_OneShotPerInterval ==
    /\ [][C34_Step]_vars
    /\ \A n \in 1..ReloadTicks :
          []((Fired("enemy_1") /\ frame = n)
               => []((Fired("enemy_1") /\ frame > n)
                       => (frame - n) * frameDelta
                              >= ShootInterval(enemyManager.enemies[1])))

\* The tank has fired for the second time, its shell of the first shot still
\* in flight
C34_Witness ==
    /\ Fired("enemy_1") /\ created = 2 /\ Len(projectiles) = 2
    /\ enemyManager.enemies[1].shootTimer = ShootInterval(enemyManager.enemies[1])

\* The player as the tanks of the step find it: moved by its own update, as
\* alive as before
PlayerFound == [player' EXCEPT !.alive = player.alive]

\* Tank k as its update with the given draws finds it after the AI and the turn
TankTurned(k, rnd) ==
    Let(enemyManager.enemies[k], LAMBDA e :
    TankRotate(updateAI([e EXCEPT !.moveTimer = e.moveTimer + frameDelta',
                                  !.shootTimer = e.shootTimer - frameDelta'],
                        PlayerFound, level, Mountains, rnd), frameDelta'))

\* The tank overlaps an obstacle, a mountain or the live player
Stopped(e, p) ==
    \/ checkObstacleCollision(e.position, e.collisionRadius, Obstacles)
    \/ \E i \in 1..Len(Mountains) :
          circleVsCircle(e.position[1], e.position[3], e.collisionRadius,
                         Mountains[i].position[1], Mountains[i].position[3],
                         MountainRadius(Mountains[i]))
    \/ /\ p.alive
       /\ circleVsCircle(e.position[1], e.position[3], e.collisionRadius,
                         p.position[1], p.position[3], p.collisionRadius)

\* The step updated tank k with the given draws
UpdatedWith(k, rnd) ==
    enemyManager'.enemies[k] =
        ClearShouldShoot(EnemyTankUpdate(enemyManager.enemies[k], frameDelta', PlayerFound,
                                         Obstacles, Mountains, RemoveAt(TanksFoundBy(k), k),
                                         level, rnd))

\* A live tank that its move forward has brought onto an obstacle, a mountain
\* or the live player is put back where it was, its moveTimer is 0 and its
\* targetRotation lies between rotation + pi/2 and rotation + 3 pi/2; from
\* there it is pushed off the tanks that overlap it, if any, and clamped
C35_Step ==
    EnemiesRun /\ SameTanks =>
        \A k \in 1..Len(enemyManager.enemies) : \A rnd \in TankDraws :
            \E before \in {enemyManager.enemies[k]}, after \in {enemyManager'.enemies[k]},
               turned \in {TankTurned(k, rnd)}, found \in {TanksFoundBy(k)} :
                /\ before.alive
                /\ Stopped(TankAdvance(turned, frameDelta', rnd), PlayerFound)
                /\ UpdatedWith(k, rnd)
                => /\ after.moveTimer = 0
                   /\ after.targetRotation >= after.rotation + HALF_PI
                   /\ after.targetRotation <= after.rotation + HALF_PI + PI
                   /\ after.position =
                         clampToBounds(TankSeparate(turned, found, 1, rnd.push).position, 1500)
                   /\ ~TouchesTank(before, found) => after.position = before.position

\* C35: a tank that after its movement step overlaps an obstacle footprint, a
\* mountain circle or the circle of the live player has its x, z position
\* restored to the value before the movement step, its moveTimer set to 0 and
\* its targetRotation set to a heading between rotation + pi/2 and
\* rotation + 3 pi/2
C35_BlockedTankTurnsBack == [][C35_Step]_vars

\* A tank stands where it stood before it drove at something, its moveTimer 0
\* and its new heading at least a quarter turn off
C35_Witness ==
    /\ lastOp = "update" /\ state = "playing" /\ frame >= 1
    /\ \E k \in 1..Len(enemyManager.enemies) :
          /\ enemyManager.enemies[k].alive
          /\ enemyManager.enemies[k].moveTimer = 0
          /\ enemyManager.enemies[k].targetRotation
                >= enemyManager.enemies[k].rotation + HALF_PI
          /\ enemyManager.enemies[k].state # "shoot"

\* The displacement of tank k in the step, in x and z
Displacement(k) ==
    <<enemyManager'.enemies[k].position[1] - enemyManager.enemies[k].position[1],
      enemyManager'.enemies[k].position[3] - enemyManager.enemies[k].position[3]>>

\* Tanks i and j overlap before the step
Overlapping(i, j) ==
    /\ enemyManager.enemies[i].alive /\ enemyManager.enemies[j].alive
    /\ circleVsCircle(enemyManager.enemies[i].position[1], enemyManager.enemies[i].position[3],
                      enemyManager.enemies[i].collisionRadius,
                      enemyManager.enemies[j].position[1], enemyManager.enemies[j].position[3],
                      enemyManager.enemies[j].collisionRadius)

\* Two tanks that stand in state shoot, alone on the field and overlapping, are
\* displaced by opposite vectors, and keep their heading and their moveTimer
C36_Step ==
    EnemiesRun /\ SameTanks /\ Len(enemyManager.enemies) = 2
    /\ StaysShooting(1) /\ StaysShooting(2) /\ Overlapping(1, 2)
    => /\ Displacement(1)[1] = -Displacement(2)[1]
       /\ Displacement(1)[2] = -Displacement(2)[2]
       /\ \A k \in 1..2 :
             /\ enemyManager'.enemies[k].targetRotation = enemyManager.enemies[k].targetRotation
             /\ enemyManager'.enemies[k].moveTimer = enemyManager.enemies[k].moveTimer + frameDelta'

\* C36: when two live tanks overlap, each of the two is displaced by half the
\* overlap distance in the tick, in opposite directions along the line between
\* the centers, and neither tank's heading or moveTimer is reset
C36_SymmetricSeparation == [][C36_Step]_vars

\* The missile refers to an entity that is not alive
TargetDead(p) ==
    /\ p.type = "guided" /\ p.target # NULL
    /\ ~LookupTarget(p.target, enemyManager.enemies).alive

\* A missile with a dead target that is in the pool after an update has the
\* velocity it had and has moved by velocity * deltaTime
C37_Step ==
    PlayingUpdate =>
        \A i \in 1..Len(projectiles), j \in 1..Len(projectiles') :
            \E before \in {projectiles[i]}, after \in {projectiles'[j]} :
                before.ownerId = after.ownerId /\ TargetDead(before)
                => /\ after.velocity = before.velocity
                   /\ after.age = before.age + frameDelta'
                   /\ \A c \in 1..3 :
                         after.position[c]
                             = before.position[c] + Move(before.velocity[c], frameDelta')

\* C37: a guided missile whose target is not alive, destroyed or already
\* removed from the list of the enemies, flies straight: an update leaves its
\* velocity as it is and moves it by velocity * deltaTime
C37_StrayMissileFliesStraight == [][C37_Step]_vars

\* A missile whose target was removed has flown straight for 0.2 s
C37_Witness ==
    /\ lastOp = "update" /\ lastTime = 200
    /\ \E i \in 1..Len(projectiles) :
          /\ projectiles[i].target = "enemy_9"
          /\ projectiles[i].age = 700
          /\ projectiles[i].velocity = <<177, -50, -170>>
          /\ projectiles[i].position = <<354, 1400, -340>>

\* The speed of the tank along its heading, as updateTankMovement reads it
SpeedAlong(tank) ==
    Let(angleToVector(tank.rotation), LAMBDA forward :
    RDiv(tank.velocity[1] * forward[1] + tank.velocity[3] * forward[3], 1000))

\* A call of updateTankMovement changes the speed as stated: with no intent
\* the magnitude falls by half the deceleration times deltaTime, not below
\* zero; with forward intent the speed rises by the acceleration times
\* deltaTime, not above maxSpeed; with backward intent it falls, not below
\* minus half of maxSpeed
C38_Step ==
    lastOp' = "updateTankMovement" =>
        \E input \in {player'.input}, speed \in {SpeedAlong(player)},
           newSpeed \in {player'.currentSpeed} :
            /\ ~input.forward /\ ~input.backward /\ speed # 0 =>
                  /\ Abs(newSpeed)
                        = Max(0, Abs(speed) - RDiv(player.deceleration * frameDelta', 2000))
                  /\ newSpeed * speed >= 0
            /\ input.forward /\ ~input.backward =>
                  newSpeed = Min(player.maxSpeed,
                                 speed + RDiv(player.acceleration * frameDelta', 1000))
            /\ input.backward /\ speed > -RDiv(player.maxSpeed, 2) =>
                  newSpeed < speed /\ newSpeed >= -RDiv(player.maxSpeed, 2)

\* C38: in updateTankMovement, with neither forward nor backward intent and a
\* non-zero speed the magnitude of the speed decreases by
\* 0.5 * deceleration * deltaTime per tick until it is zero, without a change
\* of sign; with forward intent the speed ramps up by acceleration * deltaTime
\* per tick to maxSpeed; with backward intent it ramps to -0.5 * maxSpeed
C38_SpeedRamps == [][C38_Step]_vars

\* The coefficients of |origin + t * direction - center|^2 = radius^2 in t
RayQuadratic(call) ==
    LET oc == <<call.origin[1] - call.center[1], call.origin[2] - call.center[2],
                call.origin[3] - call.center[3]>>
        d == call.direction
    IN [a |-> d[1] * d[1] + d[2] * d[2] + d[3] * d[3],
        b |-> 2 * (oc[1] * d[1] + oc[2] * d[2] + oc[3] * d[3]),
        c |-> oc[1] * oc[1] + oc[2] * oc[2] + oc[3] * oc[3] - call.radius * call.radius]

\* The ray meets the sphere at some t >= 0: the equation has roots and the
\* larger one is not negative
RayMeets(q) == q.b * q.b - 4 * q.a * q.c >= 0 /\ (q.b <= 0 \/ q.c <= 0)

\* The smallest root that is not negative, in thousandths
RayNearest(q) ==
    Let(Sqrt((q.b * q.b - 4 * q.a * q.c) * 1000000), LAMBDA root :
    IF -1000 * q.b - root >= 0 THEN RDiv(-1000 * q.b - root, 2 * q.a)
    ELSE RDiv(-1000 * q.b + root, 2 * q.a))

\* C39: rayVsSphere returns the nearest intersection parameter t >= 0 whenever
\* the ray meets the sphere, also when the origin is inside the sphere, and
\* returns no hit only when there is no intersection with t >= 0
C39_RayHitsSphere ==
    lastOp = "rayVsSphere" =>
        Let(RayQuadratic(returned), LAMBDA q :
        /\ returned.result.hit <=> RayMeets(q)
        /\ returned.result.hit => returned.result.t = RayNearest(q))

\* The number of times the entity is in the list
Copies(list, entity) == Len(SelectSeq(list, LAMBDA e : e = entity))

\* The number of times the entity is in the cell with the given key
CopiesAt(hash, key, entity) == Copies(CellAt(hash, key), entity)

\* The keys of the Map
CellKeys(hash) == {hash.cells[i].key : i \in 1..Len(hash.cells)}

\* The entity is at most radius away from (x, z) in the plane
WithinRadius(entity, x, z, radius) ==
    (entity.position[1] - x) * (entity.position[1] - x)
        + (entity.position[3] - z) * (entity.position[3] - z) <= radius * radius

\* insert puts the entity once more into the cell of the floors of x / cellSize
\* and z / cellSize and changes nothing else; clear leaves no cell; getNearby
\* leaves the hash as it is and returns entities of the hash only, among them
\* every one at most radius away, as often as it was inserted
C40_Step ==
    \E before \in {IF lastOp = "init" THEN createSpatialHash(1) ELSE returned.hash},
       after \in {returned'.hash} :
        /\ lastOp' = "insert" =>
              \E entity \in {returned'.args[1]} :
              \E key \in {<<entity.position[1] \div after.cellSize,
                             entity.position[3] \div after.cellSize>>} :
                  /\ CellKeys(after) = CellKeys(before) \cup {key}
                  /\ \A k \in CellKeys(after), e \in HashEntities :
                        CopiesAt(after, k, e)
                            = CopiesAt(before, k, e) + (IF k = key /\ e = entity THEN 1 ELSE 0)
        /\ lastOp' = "clear" => CellKeys(after) = {}
        /\ lastOp' = "getNearby" =>
              /\ after = before
              /\ \A e \in HashEntities :
                    /\ Copies(returned'.result, e) > 0 =>
                          \E k \in CellKeys(before) : CopiesAt(before, k, e) > 0
                    /\ WithinRadius(e, returned'.args[1], returned'.args[2], returned'.args[3])
                          => \A k \in CellKeys(before) :
                                Copies(returned'.result, e) >= CopiesAt(before, k, e)

\* C40: after any sequence of insert calls getNearby(x, z, radius) returns
\* every inserted entity whose distance to (x, z) in the plane is at most
\* radius; each inserted entity is stored in exactly the cell given by the
\* floors of x / cellSize and z / cellSize; after clear getNearby returns
\* nothing
C40_SpatialHashComplete ==
    /\ [][C40_Step]_vars
    /\ [](lastOp = "getNearby" /\ returned.hash.cells = <<>> => returned.result = <<>>)

\* getNearby has returned one of two inserted entities, from a cell with a
\* negative index next to the cell of the query
C40_Witness ==
    /\ lastOp = "getNearby" /\ inputs = 2
    /\ returned.hash.cellSize = 1000
    /\ returned.args = <<500, 500, 1000>>
    /\ Len(returned.result) = 1
    /\ returned.result[1].id = "b"
    /\ \E i \in 1..Len(returned.hash.cells) :
          \E j \in 1..Len(returned.hash.cells[i].items) :
              returned.hash.cells[i].items[j].id = "d"
====
